---- MODULE Spec2Model ----
(***************************************************************************)
(* A model of ipc-channel's typed transport layer (src/src/ipc.rs).        *)
(*                                                                         *)
(* The message type T of every channel is taken to be Vec<Item>, Item an   *)
(* enum whose variants are a plain byte, the three transferable resources  *)
(* (IpcSender, IpcReceiver, IpcSharedMemory) and four user-defined types   *)
(* with hand-written encoders: one whose encoder fails, one whose decoder  *)
(* fails, one whose encoder performs a send (a re-entrant send) and one    *)
(* whose decoder performs a try_recv (a re-entrant decode).                *)
(*                                                                         *)
(* The payload is the token stream the byte serializer emits: the length   *)
(* of the Vec, then for every item its variant tag and its content; an     *)
(* embedded resource's content is its index into the side-band vector.     *)
(*                                                                         *)
(* Beside send and recv the model has the receiver set (add, select), the  *)
(* one-shot server (new, connect, accept), the bytes channel and the       *)
(* Stream adapter's poll; a program uses one of them at a time.            *)
(*                                                                         *)
(* The per-OS backends (platform/unix, macos, inprocess) are not part of   *)
(* the sources at hand; their contract is modelled from the specification. *)
(***************************************************************************)
EXTENDS Integers, Sequences, FiniteSets, TLC

\* ------------------------------------------------------------------ bounds
MaxSends == 2      \* sends begun in one behaviour (nested ones included)
MaxClones == 2     \* sender endpoints of one channel the program holds at once

Chan == {1, 2}           \* the channels created by channel() before Init
Region == {1, 2}         \* the shared-memory regions the program holds
Thread == {"t1", "t2"}   \* each has its own thread_local! buffers

\* ------------------------------------------------------------- the value T
Byte(b) == [k |-> "Byte", a |-> b, v |-> <<>>]
Sender(c) == [k |-> "Sender", a |-> c, v |-> <<>>]
Receiver(c) == [k |-> "Receiver", a |-> c, v |-> <<>>]
Memory(m) == [k |-> "Memory", a |-> m, v |-> <<>>]
BadSer == [k |-> "BadSer", a |-> 0, v |-> <<>>]
BadDe == [k |-> "BadDe", a |-> 0, v |-> <<>>]
Relay(c, inner) == [k |-> "Relay", a |-> c, v |-> inner]
Fetch(c) == [k |-> "Fetch", a |-> c, v |-> <<>>]

\* The variant tag the serializer writes for an item, and its inverse.
TagOf(kind) ==
    CASE kind = "Byte" -> 0
      [] kind = "Sender" -> 1
      [] kind = "Receiver" -> 2
      [] kind = "Memory" -> 3
      [] kind = "BadSer" -> 4
      [] kind = "BadDe" -> 5
      [] kind = "Relay" -> 6
      [] kind = "Fetch" -> 7

KindOf(tag) ==
    CASE tag = 0 -> "Byte"
      [] tag = 1 -> "Sender"
      [] tag = 2 -> "Receiver"
      [] tag = 3 -> "Memory"
      [] tag = 4 -> "BadSer"
      [] tag = 5 -> "BadDe"
      [] tag = 6 -> "Relay"
      [] tag = 7 -> "Fetch"
      [] OTHER -> "Invalid"

\* ------------------------------------------------------ the values drawn

PureValues == {<<>>, <<Byte(0)>>, <<Byte(255)>>, <<Byte(255), Byte(0)>>}

\* Values that embed resources. As in the specification's scenario, channel 1
\* is (a, b) and channel 2 is (c, d): the code treats all channels alike.
ResourceValues ==
    {<<Sender(2)>>, <<Receiver(2)>>, <<Memory(1)>>,
     <<Sender(2), Sender(1)>>, <<Memory(1), Sender(2)>>,
     <<Sender(1), Receiver(2)>>, <<Byte(1)>>}

\* Values with a user type whose encoder (BadSer) or decoder (BadDe) fails.
FailingValues ==
    {<<Sender(2), BadSer>>, <<Receiver(2), BadSer>>, <<Memory(1), BadSer>>,
     <<Receiver(2), BadDe>>, <<Sender(2)>>, <<Byte(1)>>}

\* What a Relay's encoder sends.
InnerValues ==
    {<<Sender(2)>>, <<Sender(2), BadSer>>, <<Memory(1), BadSer>>}

RelayValues ==
    {<<Sender(1), Relay(d, w)>> : d \in Chan, w \in InnerValues}
    \cup {<<Memory(1), Relay(2, w), Sender(1)>> : w \in InnerValues}
    \cup {<<Sender(2)>>}

FetchValues ==
    {<<Sender(1), Fetch(d)>> : d \in Chan}
    \cup {<<Sender(2)>>, <<Memory(1), Byte(1)>>, <<Sender(2), BadDe>>,
          <<Fetch(2), Sender(1)>>}

\* Values sent by a program that also drops receivers it holds.
ClosingValues == {<<Byte(1)>>, <<Sender(2)>>, <<Receiver(2)>>, <<Sender(2), BadSer>>}

\* Values sent by a program that also clones and drops senders it holds.
SendersValues == {<<Byte(1)>>, <<Sender(2)>>, <<Sender(2), BadSer>>}

\* Values sent by a program whose two threads send on clones of the senders.
ConcurrentValues ==
    {<<Byte(1)>>, <<Sender(2), Memory(1)>>,
     <<Sender(1), Relay(2, <<Sender(2), BadSer>>)>>}

\* Values that embed shared-memory regions.
MemoryValues ==
    {<<Memory(1)>>, <<Memory(2), Byte(1), Memory(1)>>,
     <<Memory(2), Relay(2, <<Memory(1), BadSer>>)>>,
     <<Memory(2), Relay(2, <<Sender(2), BadSer>>), Memory(1)>>}

\* Values sent by a program that receives through an IpcReceiverSet.
SelectValues == {<<Byte(1)>>, <<Sender(2), Memory(2)>>}

\* Values sent to a one-shot server and on the connection it returns.
OneShotValues == {<<Byte(1)>>, <<Byte(2), Sender(2)>>, <<Sender(2), BadDe>>}

\* Values a typed sender sends on a bytes channel (an IpcBytesSender received
\* as an IpcSender<T>: both are written as an index into the handle vector).
BytesValues == {<<Byte(1)>>, <<Sender(2), Memory(1)>>}

\* The slices given to IpcBytesSender::send: each is the payload of a vector
\* of bytes, AsValue(bytes), which the history records as the value sent.
Slices == {<<0>>, <<1, 0, 84>>, <<2, 0, 84, 0, 105>>}

AsValue(bytes) == [i \in 1..bytes[1] |-> Byte(bytes[2 * i + 1])]

\* Values sent to a receiver that is polled as a Stream.
PollValues == {<<Byte(1)>>, <<Byte(2), BadDe>>}

\* The programs run: each sends values of one family.
Programs == {"pure", "resource", "failing", "relay", "fetch", "closing", "senders",
             "concurrent", "memory", "select", "oneshot", "bytes",
             "poll"}

Values(prog) ==
    CASE prog = "pure" -> PureValues
      [] prog = "resource" -> ResourceValues
      [] prog = "failing" -> FailingValues
      [] prog = "relay" -> RelayValues
      [] prog = "fetch" -> FetchValues
      [] prog = "closing" -> ClosingValues
      [] prog = "senders" -> SendersValues
      [] prog = "concurrent" -> ConcurrentValues
      [] prog = "memory" -> MemoryValues
      [] prog = "select" -> SelectValues
      [] prog = "oneshot" -> OneShotValues
      [] prog = "bytes" -> BytesValues
      [] prog = "poll" -> PollValues

\* ----------------------------------------------------------------- helpers
Top(s) == s[Len(s)]
Pop(s) == SubSeq(s, 1, Len(s) - 1)
Range(s) == {s[i] : i \in 1..Len(s)}

\* The receivers a value owns (IpcReceiver is move-only).
ReceiversIn(val, from) ==
    {val[i].a : i \in {j \in from..Len(val) : val[j].k = "Receiver"}}

\* How many senders of channel c a value embeds (IpcSender is cloneable).
SendersIn(val, c) ==
    Cardinality({i \in 1..Len(val) : val[i].k = "Sender" /\ val[i].a = c})

\* Sends a value performs when it is sent: itself and one per Relay item.
SendsNeeded(val) == 1 + Cardinality({i \in 1..Len(val) : val[i].k = "Relay"})

\* Option<T>: Some(x) is <<x>>, None is <<>>.
Some(x) == <<x>>
None == <<>>

RECURSIVE SumFn(_)
SumFn(f) ==
    IF DOMAIN f = {} THEN 0
    ELSE LET x == CHOOSE y \in DOMAIN f : TRUE
         IN f[x] + SumFn([y \in DOMAIN f \ {x} |-> f[y]])

\* ------------------------------------------------------------------- state
VARIABLES
    queue,      \* backend: per channel, the messages sent and not yet received
    rxLocal,    \* channels whose IpcReceiver the program holds (not in a value)
    txLocal,    \* per channel: how many IpcSender endpoints the program holds
    OS_IPC_CHANNELS_FOR_SERIALIZATION,                \* per thread
    OS_IPC_SHARED_MEMORY_REGIONS_FOR_SERIALIZATION,   \* per thread
    OS_IPC_CHANNELS_FOR_DESERIALIZATION,              \* per thread
    OS_IPC_SHARED_MEMORY_REGIONS_FOR_DESERIALIZATION, \* per thread
    stack,      \* per thread: the calls of send and to in progress, innermost last
    ret,        \* per thread: what the last call that returned gave back
    nsend,      \* sends begun so far; a send's number is its id (sid)
    sentLog,    \* history, per channel: sids the backend accepted, in order
    recvLog,    \* history, per channel: sids pulled from the backend, in order
    transported, \* history: held, the channels whose senders in the program's
                \* hands all came out of received messages; sends, the sids of
                \* the sends made on such a sender
    os_receiver_set, \* the IpcReceiverSet: its Incrementor, its receivers
    addLog,     \* history: the id and the channel of every add, in order
    results,    \* the Vec<IpcSelectionResult> the last select returned, unread part
    os_server,  \* the IpcOneShotServer: "none", "listening" or "accepted"
    active,     \* the threads that run
    program     \* the family of values the program sends

vars == <<queue, rxLocal, txLocal, OS_IPC_CHANNELS_FOR_SERIALIZATION,
          OS_IPC_SHARED_MEMORY_REGIONS_FOR_SERIALIZATION,
          OS_IPC_CHANNELS_FOR_DESERIALIZATION,
          OS_IPC_SHARED_MEMORY_REGIONS_FOR_DESERIALIZATION,
          stack, ret, nsend, sentLog, recvLog, transported, os_receiver_set,
          addLog, results, os_server, active, program>>

serBufs == <<OS_IPC_CHANNELS_FOR_SERIALIZATION,
             OS_IPC_SHARED_MEMORY_REGIONS_FOR_SERIALIZATION>>
deBufs == <<OS_IPC_CHANNELS_FOR_DESERIALIZATION,
            OS_IPC_SHARED_MEMORY_REGIONS_FOR_DESERIALIZATION>>
logs == <<sentLog, recvLog, transported>>
composite == <<os_receiver_set, addLog, results, os_server>>

NoRet == [op |-> "none", res |-> "none", c |-> 0, sid |-> 0,
          value |-> <<>>, sent |-> <<>>, depth |-> 0]

\* u64, the type of Incrementor's last_value and of the ids of a receiver set:
\* a number below 2^64, written as four 16-bit limbs, the most significant
\* first. U64(n) is the u64 of a number below 2^16.
U64(n) == <<0, 0, 0, n>>

U64_MAX == <<2^16 - 1, 2^16 - 1, 2^16 - 1, 2^16 - 1>>

\* a < b on u64.
U64_lt(a, b) ==
    \E i \in 1..4 : a[i] < b[i] /\ \A j \in 1..(i - 1) : a[j] = b[j]

\* x + 1 modulo 2^64: the least significant limb below its maximum is
\* incremented and the limbs after it, all at their maximum, become 0; from
\* u64::MAX the sum is 0.
U64_wrapping_add_1(x) ==
    IF x = U64_MAX THEN U64(0)
    ELSE LET i == CHOOSE k \in 1..4 :
                      x[k] < 2^16 - 1 /\ \A j \in (k + 1)..4 : x[j] = 2^16 - 1
         IN [j \in 1..4 |-> IF j < i THEN x[j] ELSE IF j = i THEN x[j] + 1 ELSE 0]

\* Incrementor (platform/mod.rs), the source of the ids of OsIpcReceiverSet.
Incrementor_new == [last_value |-> U64(0)]

\* An increment that returns the next value without storing it.
Incrementor_increment_unstored(self) ==
    {[kind |-> "Ok", self |-> self, value |-> U64_wrapping_add_1(self.last_value)]}

\* Incrementor::increment: `self.last_value += 1; self.last_value`. The
\* outcomes of one call, as a set: below u64::MAX the sum is stored and
\* returned. At u64::MAX the addition overflows: a build with overflow checks
\* (debug) panics at the addition and stores nothing, a build without them
\* (release) stores and returns 0.
Incrementor_increment(self) ==
    IF self.last_value = U64_MAX
    THEN {[kind |-> "Panic", self |-> self, value |-> self.last_value],
          [kind |-> "Ok", self |-> [self EXCEPT !.last_value = U64(0)],
           value |-> U64(0)]}
    ELSE LET next == [self EXCEPT !.last_value = U64_wrapping_add_1(@)]
         IN {[kind |-> "Ok", self |-> next, value |-> next.last_value]}

\* IpcReceiverSet::new: an empty backend set.
IpcReceiverSet_new == [incrementor |-> Incrementor_new, receivers |-> <<>>]

\* platform::channel() for every channel, wrapped by channel<T>() : both ends
\* are held by the program, nothing is queued, the thread-locals are empty.
channel(created) ==
    /\ queue = [c \in Chan |-> <<>>]
    /\ rxLocal = created

\* The name OsIpcOneShotServer::new gives its server: the channel behind it.
ServerName == 1

\* Every thread that runs was given a clone of each sender.
InitWith(threads, progs, created) ==
    /\ channel(created)
    /\ txLocal = [c \in Chan |-> IF c \in created THEN Cardinality(threads) ELSE 0]
    /\ OS_IPC_CHANNELS_FOR_SERIALIZATION = [t \in Thread |-> <<>>]
    /\ OS_IPC_SHARED_MEMORY_REGIONS_FOR_SERIALIZATION = [t \in Thread |-> <<>>]
    /\ OS_IPC_CHANNELS_FOR_DESERIALIZATION = [t \in Thread |-> <<>>]
    /\ OS_IPC_SHARED_MEMORY_REGIONS_FOR_DESERIALIZATION = [t \in Thread |-> <<>>]
    /\ stack = [t \in Thread |-> <<>>]
    /\ ret = [t \in Thread |-> NoRet]
    /\ nsend = 0
    /\ sentLog = [c \in Chan |-> <<>>]
    /\ recvLog = [c \in Chan |-> <<>>]
    /\ transported = [held |-> {}, sends |-> {}]
    /\ os_receiver_set = IpcReceiverSet_new
    /\ addLog = <<>>
    /\ results = <<>>
    /\ os_server = "none"
    /\ active = threads
    /\ program \in progs

\* The program with the one-shot server creates one channel with channel();
\* the other is the one the server will listen on.
Init ==
    \/ InitWith({"t1"}, Programs \ {"concurrent", "oneshot"}, Chan)
    \/ InitWith(Thread, {"concurrent"}, Chan)
    \/ InitWith({"t1"}, {"oneshot"}, Chan \ {ServerName})

Running(t) == t \in active /\ ret[t].res # "Panic"

\* IpcReceiver is move-only: the receivers the program holds are with its
\* first thread, the other thread only sends. The program "bytes" made its
\* channels with bytes_channel(): its receivers are IpcBytesReceivers.
HoldsReceiver(t, c) == c \in rxLocal /\ t = "t1" /\ program # "bytes"
HoldsBytesReceiver(t, c) == c \in rxLocal /\ t = "t1" /\ program = "bytes"

\* ------------------------------------------------------ side-band entries
\* OsIpcSharedMemory::from_byte / from_bytes: a fresh region with these bytes.
OsIpcSharedMemory_from_byte(byte, length) == [i \in 1..length |-> byte]
OsIpcSharedMemory_from_bytes(bytes) == bytes

\* impl Deref for IpcSharedMemory: the bytes of region m. Region 1 was made by
\* from_byte(0xAB, 2), region 2 by from_bytes(&[1, 2, 3]); nothing writes to a
\* region afterwards.
deref(m) ==
    CASE m = 1 -> OsIpcSharedMemory_from_byte(171, 2)
      [] m = 2 -> OsIpcSharedMemory_from_bytes(<<1, 2, 3>>)

\* OsIpcChannel::Sender(..) / OsIpcChannel::Receiver(..) of channel c. The sid
\* is history: the send whose encoder pushed the entry.
OsIpcChannel(kind, c, sid) == [kind |-> kind, c |-> c, sid |-> sid]
OsIpcSharedMemory(m, sid) == [m |-> m, sid |-> sid]

CountRx(chans, c) ==
    Cardinality({i \in 1..Len(chans) : chans[i].kind = "Receiver" /\ chans[i].c = c})

\* The channels whose receiver the IpcReceiverSet owns.
SetChannels ==
    {os_receiver_set.receivers[i].c : i \in 1..Len(os_receiver_set.receivers)}

\* The handle vector of a select result (a closure carries none).
ResultChannels(r) ==
    IF r.kind = "MessageReceived" THEN r.message.os_ipc_channels ELSE <<>>

\* Receiver handles of channel c a call in progress owns.
FrameRx(f, c) ==
    IF f.op = "send"
    THEN CountRx(f.old_os_ipc_channels, c) + CountRx(f.os_ipc_channels, c)
         + (IF c \in ReceiversIn(f.data, f.pos) THEN 1 ELSE 0)
    ELSE CountRx(f.os_ipc_channels, c)
         + (IF c \in ReceiversIn(f.out, 1) THEN 1 ELSE 0)
         + (IF f.via = "accept" /\ f.c = c THEN 1 ELSE 0)

\* How many owners the receiver handle of channel c has, wherever they are.
RxHolders(c) ==
    (IF c \in rxLocal THEN 1 ELSE 0)
    + (IF c \in SetChannels THEN 1 ELSE 0)
    + (IF os_server = "listening" /\ c = ServerName THEN 1 ELSE 0)
    + SumFn([i \in 1..Len(results) |-> CountRx(ResultChannels(results[i]), c)])
    + SumFn([t \in Thread |->
               CountRx(OS_IPC_CHANNELS_FOR_SERIALIZATION[t], c)
               + CountRx(OS_IPC_CHANNELS_FOR_DESERIALIZATION[t], c)
               + SumFn([i \in 1..Len(stack[t]) |-> FrameRx(stack[t][i], c)])])
    + SumFn([d \in Chan |->
               SumFn([i \in 1..Len(queue[d]) |-> CountRx(queue[d][i].channels, c)])])

CountTx(chans, c) ==
    Cardinality({i \in 1..Len(chans) : chans[i].kind = "Sender" /\ chans[i].c = c})

\* Sender handles of channel c a call in progress owns: in its vectors, and
\* in the value it was given or has decoded so far.
FrameTx(f, c) ==
    IF f.op = "send"
    THEN CountTx(f.old_os_ipc_channels, c) + CountTx(f.os_ipc_channels, c)
         + SendersIn(f.data, c)
    ELSE CountTx(f.os_ipc_channels, c) + SendersIn(f.out, c)

\* How many handles to the sending end of channel c are open, wherever they
\* are: clones share the end, which closes when the last of them is dropped.
TxHolders(c) ==
    txLocal[c]
    + SumFn([i \in 1..Len(results) |-> CountTx(ResultChannels(results[i]), c)])
    + SumFn([t \in Thread |->
               CountTx(OS_IPC_CHANNELS_FOR_SERIALIZATION[t], c)
               + CountTx(OS_IPC_CHANNELS_FOR_DESERIALIZATION[t], c)
               + SumFn([i \in 1..Len(stack[t]) |-> FrameTx(stack[t][i], c)])])
    + SumFn([d \in Chan |->
               SumFn([i \in 1..Len(queue[d]) |-> CountTx(queue[d][i].channels, c)])])

\* ------------------------------------------------------------ the backend
\* OsIpcSender::send(bytes, channels, regions): the message is queued whole, or
\* the send fails because the receiving end is closed.
OsIpcSender_send(q, c, msg) == [q EXCEPT ![c] = Append(@, msg)]
OsIpcSender_connected(c) == RxHolders(c) > 0

\* OsIpcReceiver::recv / try_recv report the channel closed when nothing is
\* queued and no handle to the sending end is open.
OsIpcReceiver_closed(c) == queue[c] = <<>> /\ TxHolders(c) = 0

\* ------------------------------------------------------------- encode path
\* serialize_os_ipc_sender: push a clone of the sender, write the index.
serialize_os_ipc_sender(buf, c, sid) ==
    [index |-> Len(buf), buf |-> Append(buf, OsIpcChannel("Sender", c, sid))]

\* impl Serialize for IpcReceiver: push the consumed receiver, write the index.
IpcReceiver_serialize(buf, c, sid) ==
    [index |-> Len(buf), buf |-> Append(buf, OsIpcChannel("Receiver", c, sid))]

\* impl Serialize for IpcSharedMemory: push a clone of the region, write the index.
IpcSharedMemory_serialize(buf, m, sid) ==
    [index |-> Len(buf), buf |-> Append(buf, OsIpcSharedMemory(m, sid))]

\* A nested call has returned to the user-defined encoder or decoder that made
\* it: the encoder writes its unit variant, the decoder yields its item.
ResumeCaller(rest) ==
    IF rest = <<>> THEN rest
    ELSE LET f == Top(rest) IN
         IF f.op = "send"
         THEN Append(Pop(rest), [f EXCEPT !.pos = @ + 1,
                                          !.bytes = @ \o <<TagOf("Relay")>>])
         ELSE Append(Pop(rest), [f EXCEPT !.rpos = @ + 2, !.left = @ - 1,
                                          !.out = Append(@, Fetch(f.data[f.rpos + 1]))])

\* IpcSender::send, lines 258-266: the thread-local buffers are saved in locals
\* and cleared, then the serializer starts (it writes the Vec's length).
send_begin(t, c, val) ==
    /\ nsend' = nsend + 1
    /\ stack' = [stack EXCEPT ![t] = Append(@,
          [op |-> "send", sid |-> nsend + 1, c |-> c, data |-> val, pos |-> 1,
           bytes |-> <<Len(val)>>, pc |-> "serialize",
           old_os_ipc_channels |-> OS_IPC_CHANNELS_FOR_SERIALIZATION[t],
           old_os_ipc_shared_memory_regions |->
               OS_IPC_SHARED_MEMORY_REGIONS_FOR_SERIALIZATION[t],
           os_ipc_channels |-> <<>>,
           os_ipc_shared_memory_regions |-> <<>>,
           entry_channels |-> OS_IPC_CHANNELS_FOR_SERIALIZATION[t],
           entry_regions |-> OS_IPC_SHARED_MEMORY_REGIONS_FOR_SERIALIZATION[t]])]
    /\ OS_IPC_CHANNELS_FOR_SERIALIZATION' =
           [OS_IPC_CHANNELS_FOR_SERIALIZATION EXCEPT ![t] = <<>>]
    /\ OS_IPC_SHARED_MEMORY_REGIONS_FOR_SERIALIZATION' =
           [OS_IPC_SHARED_MEMORY_REGIONS_FOR_SERIALIZATION EXCEPT ![t] = <<>>]

\* History: a send is begun on a sender of channel c; it is noted when every
\* sender of c the program holds came out of a message.
SentOn(c, sid) ==
    [transported EXCEPT !.sends = IF c \in transported.held /\ txLocal[c] > 0
                                  THEN @ \cup {sid} ELSE @]

\* History: the senders of the value val are handed to the program. Those of
\* a channel of which it held no sender are all it holds of that channel.
HandedOver(val) ==
    [transported EXCEPT !.held =
         @ \cup {c \in Chan : SendersIn(val, c) > 0 /\ txLocal[c] = 0}]

\* The program calls sender.send(val) on a sender of channel c. The value is
\* moved into the call, with the receivers it embeds.
send(t, c, val) ==
    /\ Running(t)
    /\ stack[t] = <<>>
    /\ nsend + SendsNeeded(val) <= MaxSends
    /\ txLocal[c] > 0
    /\ \A d \in Chan : SendersIn(val, d) > 0 => txLocal[d] > 0
    /\ ReceiversIn(val, 1) \subseteq rxLocal
    /\ rxLocal' = rxLocal \ ReceiversIn(val, 1)
    /\ send_begin(t, c, val)
    /\ transported' = SentOn(c, nsend + 1)
    /\ UNCHANGED <<queue, deBufs, ret, sentLog, recvLog, active, program, composite,
                   txLocal>>

InSerialize(t) ==
    /\ Running(t)
    /\ stack[t] # <<>>
    /\ Top(stack[t]).op = "send"
    /\ Top(stack[t]).pc = "serialize"

AtItem(t, kinds) ==
    /\ InSerialize(t)
    /\ Top(stack[t]).pos <= Len(Top(stack[t]).data)
    /\ Top(stack[t]).data[Top(stack[t]).pos].k \in kinds

\* The serializer visits an item that embeds no resource.
serialize_plain(t) ==
    /\ AtItem(t, {"Byte", "BadDe", "Fetch"})
    /\ LET f == Top(stack[t])
           item == f.data[f.pos]
           content == IF item.k = "BadDe" THEN <<>> ELSE <<item.a>>
       IN stack' = [stack EXCEPT ![t][Len(stack[t])] =
              [f EXCEPT !.pos = @ + 1,
                        !.bytes = @ \o <<TagOf(item.k)>> \o content]]
    /\ UNCHANGED <<queue, rxLocal, serBufs, deBufs, ret, nsend, logs, active, program, composite, txLocal>>

\* The serializer visits an IpcSender.
serialize_sender(t) ==
    /\ AtItem(t, {"Sender"})
    /\ LET f == Top(stack[t])
           item == f.data[f.pos]
           r == serialize_os_ipc_sender(OS_IPC_CHANNELS_FOR_SERIALIZATION[t],
                                        item.a, f.sid)
       IN /\ OS_IPC_CHANNELS_FOR_SERIALIZATION' =
                 [OS_IPC_CHANNELS_FOR_SERIALIZATION EXCEPT ![t] = r.buf]
          /\ stack' = [stack EXCEPT ![t][Len(stack[t])] =
                 [f EXCEPT !.pos = @ + 1,
                           !.bytes = @ \o <<TagOf(item.k), r.index>>]]
    /\ UNCHANGED <<queue, rxLocal, OS_IPC_SHARED_MEMORY_REGIONS_FOR_SERIALIZATION,
                   deBufs, ret, nsend, logs, active, program, composite, txLocal>>

\* The serializer visits an IpcReceiver.
serialize_receiver(t) ==
    /\ AtItem(t, {"Receiver"})
    /\ LET f == Top(stack[t])
           item == f.data[f.pos]
           r == IpcReceiver_serialize(OS_IPC_CHANNELS_FOR_SERIALIZATION[t],
                                      item.a, f.sid)
       IN /\ OS_IPC_CHANNELS_FOR_SERIALIZATION' =
                 [OS_IPC_CHANNELS_FOR_SERIALIZATION EXCEPT ![t] = r.buf]
          /\ stack' = [stack EXCEPT ![t][Len(stack[t])] =
                 [f EXCEPT !.pos = @ + 1,
                           !.bytes = @ \o <<TagOf(item.k), r.index>>]]
    /\ UNCHANGED <<queue, rxLocal, OS_IPC_SHARED_MEMORY_REGIONS_FOR_SERIALIZATION,
                   deBufs, ret, nsend, logs, active, program, composite, txLocal>>

\* The serializer visits an IpcSharedMemory.
serialize_memory(t) ==
    /\ AtItem(t, {"Memory"})
    /\ LET f == Top(stack[t])
           item == f.data[f.pos]
           r == IpcSharedMemory_serialize(
                    OS_IPC_SHARED_MEMORY_REGIONS_FOR_SERIALIZATION[t], item.a, f.sid)
       IN /\ OS_IPC_SHARED_MEMORY_REGIONS_FOR_SERIALIZATION' =
                 [OS_IPC_SHARED_MEMORY_REGIONS_FOR_SERIALIZATION EXCEPT ![t] = r.buf]
          /\ stack' = [stack EXCEPT ![t][Len(stack[t])] =
                 [f EXCEPT !.pos = @ + 1,
                           !.bytes = @ \o <<TagOf(item.k), r.index>>]]
    /\ UNCHANGED <<queue, rxLocal, OS_IPC_CHANNELS_FOR_SERIALIZATION,
                   deBufs, ret, nsend, logs, active, program, composite, txLocal>>

\* The serializer visits a user type whose encoder sends its inner value on a
\* sender of channel item.a: a send re-entered from inside the serializer.
serialize_relay(t) ==
    /\ AtItem(t, {"Relay"})
    /\ LET f == Top(stack[t])
           item == f.data[f.pos]
       IN /\ send_begin(t, item.a, item.v)
          /\ transported' = SentOn(item.a, nsend + 1)
    /\ UNCHANGED <<queue, rxLocal, deBufs, ret, sentLog, recvLog, active, program,
                   composite, txLocal>>

\* IpcSender::send, line 270: serialize_into(..)? returns the serializer's error
\* from the closure at once. The locals (the saved buffers) and the value are
\* dropped; the thread-local buffers are left as the encoders made them.
send_serialize_error(t) ==
    /\ AtItem(t, {"BadSer"})
    /\ LET f == Top(stack[t])
       IN /\ stack' = [stack EXCEPT ![t] = ResumeCaller(Pop(@))]
          /\ ret' = [ret EXCEPT ![t] =
                 [op |-> "send", res |-> "SerErr", c |-> f.c, sid |-> f.sid,
                  value |-> <<>>, sent |-> f.data, depth |-> Len(stack[t])]]
    /\ UNCHANGED <<queue, rxLocal, serBufs, deBufs, nsend, logs, active, program, composite, txLocal>>

\* A faulty send that takes the accumulated vectors and leaves the buffers
\* empty: what the caller had saved is dropped.
send_swap_out_without_restore(t) ==
    /\ InSerialize(t)
    /\ Top(stack[t]).pos > Len(Top(stack[t]).data)
    /\ LET f == Top(stack[t])
       IN /\ stack' = [stack EXCEPT ![t][Len(stack[t])] =
                 [f EXCEPT !.pc = "os_send",
                           !.os_ipc_channels = OS_IPC_CHANNELS_FOR_SERIALIZATION[t],
                           !.os_ipc_shared_memory_regions =
                               OS_IPC_SHARED_MEMORY_REGIONS_FOR_SERIALIZATION[t],
                           !.old_os_ipc_channels = <<>>,
                           !.old_os_ipc_shared_memory_regions = <<>>]]
          /\ OS_IPC_CHANNELS_FOR_SERIALIZATION' =
                 [OS_IPC_CHANNELS_FOR_SERIALIZATION EXCEPT ![t] = <<>>]
          /\ OS_IPC_SHARED_MEMORY_REGIONS_FOR_SERIALIZATION' =
                 [OS_IPC_SHARED_MEMORY_REGIONS_FOR_SERIALIZATION EXCEPT ![t] = <<>>]
    /\ UNCHANGED <<queue, rxLocal, deBufs, ret, nsend, logs, active, program, composite, txLocal>>

\* IpcSender::send, lines 271-276: the accumulated buffers are swapped out into
\* locals and the saved buffers are put back.
send_swap_out(t) ==
    /\ InSerialize(t)
    /\ Top(stack[t]).pos > Len(Top(stack[t]).data)
    /\ LET f == Top(stack[t])
       IN /\ stack' = [stack EXCEPT ![t][Len(stack[t])] =
                 [f EXCEPT !.pc = "os_send",
                           !.os_ipc_channels = OS_IPC_CHANNELS_FOR_SERIALIZATION[t],
                           !.os_ipc_shared_memory_regions =
                               OS_IPC_SHARED_MEMORY_REGIONS_FOR_SERIALIZATION[t],
                           !.old_os_ipc_channels = <<>>,
                           !.old_os_ipc_shared_memory_regions = <<>>]]
          /\ OS_IPC_CHANNELS_FOR_SERIALIZATION' =
                 [OS_IPC_CHANNELS_FOR_SERIALIZATION EXCEPT ![t] = f.old_os_ipc_channels]
          /\ OS_IPC_SHARED_MEMORY_REGIONS_FOR_SERIALIZATION' =
                 [OS_IPC_SHARED_MEMORY_REGIONS_FOR_SERIALIZATION EXCEPT ![t] =
                      f.old_os_ipc_shared_memory_regions]
    /\ UNCHANGED <<queue, rxLocal, deBufs, ret, nsend, logs, active, program, composite, txLocal>>

\* IpcSender::send, line 278: the backend send, and the return of its result. The
\* vectors are moved into the backend: on failure they are dropped there.
send_os_send(t) ==
    /\ Running(t)
    /\ stack[t] # <<>>
    /\ Top(stack[t]).op = "send"
    /\ Top(stack[t]).pc = "os_send"
    /\ LET f == Top(stack[t])
           ok == OsIpcSender_connected(f.c)
           msg == [sid |-> f.sid, data |-> f.bytes, channels |-> f.os_ipc_channels,
                   regions |-> f.os_ipc_shared_memory_regions, v |-> f.data]
       IN /\ queue' = IF ok THEN OsIpcSender_send(queue, f.c, msg) ELSE queue
          /\ sentLog' = IF ok THEN [sentLog EXCEPT ![f.c] = Append(@, f.sid)]
                        ELSE sentLog
          /\ stack' = [stack EXCEPT ![t] = ResumeCaller(Pop(@))]
          /\ ret' = [ret EXCEPT ![t] =
                 [op |-> "send", res |-> IF ok THEN "Ok" ELSE "OsErr", c |-> f.c,
                  sid |-> f.sid, value |-> <<>>, sent |-> f.data,
                  depth |-> Len(stack[t])]]
    /\ UNCHANGED <<rxLocal, serBufs, deBufs, nsend, recvLog, transported, active, program, composite, txLocal>>

\* impl Clone for IpcSender: one more endpoint on the same sending end.
IpcSender_clone(t, c) ==
    /\ Running(t)
    /\ program = "senders"
    /\ stack[t] = <<>>
    /\ txLocal[c] > 0
    /\ txLocal[c] < MaxClones
    /\ txLocal' = [txLocal EXCEPT ![c] = @ + 1]
    /\ UNCHANGED <<queue, rxLocal, serBufs, deBufs, stack, ret, nsend, logs,
                   active, program, composite>>

\* The program drops a sender endpoint it holds.
drop_sender(t, c) ==
    /\ Running(t)
    /\ program \in {"senders", "select", "poll"}
    /\ stack[t] = <<>>
    /\ txLocal[c] > 0
    /\ txLocal' = [txLocal EXCEPT ![c] = @ - 1]
    /\ UNCHANGED <<queue, rxLocal, serBufs, deBufs, stack, ret, nsend, logs,
                   active, program, composite>>

\* The program drops a receiver it holds.
drop_receiver(t, c) ==
    /\ Running(t)
    /\ program = "closing"
    /\ stack[t] = <<>>
    /\ HoldsReceiver(t, c)
    /\ rxLocal' = rxLocal \ {c}
    /\ UNCHANGED <<queue, serBufs, deBufs, stack, ret, nsend, logs, active, program, composite, txLocal>>

\* ------------------------------------------------------------- decode path
\* A faulty backend that hands out the newest queued message first.
OsIpcReceiver_recv_newest(q, c) ==
    [msg |-> q[c][Len(q[c])],
     q |-> [q EXCEPT ![c] = SubSeq(@, 1, Len(@) - 1)]]

\* OsIpcReceiver::recv / try_recv: the oldest queued message, whole.
OsIpcReceiver_recv(q, c) == [msg |-> Head(q[c]), q |-> [q EXCEPT ![c] = Tail(@)]]

\* OsOpaqueIpcChannel::to_sender / to_receiver: the handle is taken out of the
\* opaque channel and wrapped as the end asked for. A handle that is not that
\* end of a channel gives an endpoint of no channel (0).
Taken(h) == [h EXCEPT !.kind = "Taken"]
to_sender(h) == IF h.kind = "Sender" THEN h.c ELSE 0
to_receiver(h) == IF h.kind = "Receiver" THEN h.c ELSE 0

\* A faulty OpaqueIpcMessage::new that keeps the vectors and loses the payload.
OpaqueIpcMessage_new_without_data(data, os_ipc_channels, os_ipc_shared_memory_regions) ==
    [data |-> <<>>,
     os_ipc_channels |-> os_ipc_channels,
     os_ipc_shared_memory_regions |->
         [i \in 1..Len(os_ipc_shared_memory_regions) |->
              Some(os_ipc_shared_memory_regions[i])]]

\* OpaqueIpcMessage::new: every region is wrapped in Some.
OpaqueIpcMessage_new(data, os_ipc_channels, os_ipc_shared_memory_regions) ==
    [data |-> data,
     os_ipc_channels |-> os_ipc_channels,
     os_ipc_shared_memory_regions |->
         [i \in 1..Len(os_ipc_shared_memory_regions) |->
              Some(os_ipc_shared_memory_regions[i])]]

\* A faulty deserialize_os_ipc_sender that ignores the index it read and takes
\* the first handle of the buffer.
deserialize_os_ipc_sender_first(buf, index) ==
    [c |-> to_sender(buf[1]),
     buf |-> [buf EXCEPT ![1] = Taken(@)]]

\* deserialize_os_ipc_sender, line 643: the sender made from the handle at index.
deserialize_os_ipc_sender(buf, index) ==
    [c |-> to_sender(buf[index + 1]),
     buf |-> [buf EXCEPT ![index + 1] = Taken(@)]]

\* impl Deserialize for IpcReceiver, line 211.
IpcReceiver_deserialize(buf, index) ==
    [c |-> to_receiver(buf[index + 1]),
     buf |-> [buf EXCEPT ![index + 1] = Taken(@)]]

\* A faulty decoder that hands out the region and leaves it in its slot.
IpcSharedMemory_deserialize_keeps_slot(buf, index) ==
    [m |-> buf[index + 1][1].m,
     buf |-> buf]

\* impl Deserialize for IpcSharedMemory, lines 373-375: mem::replace(.., None).
IpcSharedMemory_deserialize(buf, index) ==
    [m |-> buf[index + 1][1].m,
     buf |-> [buf EXCEPT ![index + 1] = None]]

\* A faulty entry of OpaqueIpcMessage::to that leaves the thread-local handle
\* buffer as it is: the message keeps its handle vector.
OpaqueIpcMessage_to_without_swap(t, c, via, msg, self) ==
    /\ stack' = [stack EXCEPT ![t] = Append(@,
          [op |-> "to", via |-> via, c |-> c, sid |-> msg.sid,
           sent |-> msg.v, data |-> self.data,
           rpos |-> 2,
           left |-> IF self.data = <<>> THEN 0 ELSE self.data[1],
           pc |-> IF self.data = <<>> THEN "failed" ELSE "deserialize",
           out |-> <<>>,
           os_ipc_channels |-> self.os_ipc_channels,
           os_ipc_shared_memory_regions |->
               OS_IPC_SHARED_MEMORY_REGIONS_FOR_DESERIALIZATION[t],
           entry_channels |-> OS_IPC_CHANNELS_FOR_DESERIALIZATION[t],
           entry_regions |-> OS_IPC_SHARED_MEMORY_REGIONS_FOR_DESERIALIZATION[t],
           msg_channels |-> self.os_ipc_channels,
           msg_regions |-> self.os_ipc_shared_memory_regions])]
    /\ OS_IPC_CHANNELS_FOR_DESERIALIZATION' = OS_IPC_CHANNELS_FOR_DESERIALIZATION
    /\ OS_IPC_SHARED_MEMORY_REGIONS_FOR_DESERIALIZATION' =
           [OS_IPC_SHARED_MEMORY_REGIONS_FOR_DESERIALIZATION EXCEPT ![t] =
                self.os_ipc_shared_memory_regions]

\* The entry of OpaqueIpcMessage::to (lines 463-467): the message's vectors are
\* swapped into the thread-local buffers, whose contents the message holds
\* meanwhile. Then the deserializer starts (it reads the Vec's length).
OpaqueIpcMessage_to(t, c, via, msg, self) ==
    /\ stack' = [stack EXCEPT ![t] = Append(@,
          [op |-> "to", via |-> via, c |-> c, sid |-> msg.sid,
           sent |-> msg.v, data |-> self.data,
           rpos |-> 2,
           left |-> IF self.data = <<>> THEN 0 ELSE self.data[1],
           pc |-> IF self.data = <<>> THEN "failed" ELSE "deserialize",
           out |-> <<>>,
           os_ipc_channels |-> OS_IPC_CHANNELS_FOR_DESERIALIZATION[t],
           os_ipc_shared_memory_regions |->
               OS_IPC_SHARED_MEMORY_REGIONS_FOR_DESERIALIZATION[t],
           entry_channels |-> OS_IPC_CHANNELS_FOR_DESERIALIZATION[t],
           entry_regions |-> OS_IPC_SHARED_MEMORY_REGIONS_FOR_DESERIALIZATION[t],
           msg_channels |-> self.os_ipc_channels,
           msg_regions |-> self.os_ipc_shared_memory_regions])]
    /\ OS_IPC_CHANNELS_FOR_DESERIALIZATION' =
           [OS_IPC_CHANNELS_FOR_DESERIALIZATION EXCEPT ![t] = self.os_ipc_channels]
    /\ OS_IPC_SHARED_MEMORY_REGIONS_FOR_DESERIALIZATION' =
           [OS_IPC_SHARED_MEMORY_REGIONS_FOR_DESERIALIZATION EXCEPT ![t] =
                self.os_ipc_shared_memory_regions]

\* A faulty receive that decodes the oldest message and leaves it queued.
to_begin_without_pop(t, c, via) ==
    LET got == OsIpcReceiver_recv(queue, c)
        self == OpaqueIpcMessage_new(got.msg.data, got.msg.channels, got.msg.regions)
    IN /\ queue' = queue
       /\ recvLog' = [recvLog EXCEPT ![c] = Append(@, got.msg.sid)]
       /\ OpaqueIpcMessage_to(t, c, via, got.msg, self)

\* IpcReceiver::recv / try_recv after the backend gave a message (lines 166-167,
\* 171-173): the message is wrapped by OpaqueIpcMessage::new and decoded by to.
to_begin(t, c, via) ==
    LET got == OsIpcReceiver_recv(queue, c)
        self == OpaqueIpcMessage_new(got.msg.data, got.msg.channels, got.msg.regions)
    IN /\ queue' = got.q
       /\ recvLog' = [recvLog EXCEPT ![c] = Append(@, got.msg.sid)]
       /\ OpaqueIpcMessage_to(t, c, via, got.msg, self)

\* What a receive that got no message returns: the backend's error, turned
\* into a bincode::Error by try! (lines 166, 172).
NoMessage(t, c, op, err) ==
    [op |-> op, res |-> err, c |-> c, sid |-> 0,
     value |-> <<>>, sent |-> <<>>, depth |-> Len(stack[t]) + 1]

PeerClosed(t, c, op) == NoMessage(t, c, op, "PeerClosed")

\* IpcReceiver::recv: blocks until the backend has a message or reports the
\* channel closed.
recv(t, c) ==
    /\ Running(t)
    /\ stack[t] = <<>>
    /\ HoldsReceiver(t, c)
    /\ IF queue[c] # <<>>
       THEN /\ to_begin(t, c, "recv")
            /\ UNCHANGED ret
       ELSE /\ OsIpcReceiver_closed(c)
            /\ ret' = [ret EXCEPT ![t] = PeerClosed(t, c, "recv")]
            /\ UNCHANGED <<queue, deBufs, stack, recvLog>>
    /\ UNCHANGED <<rxLocal, serBufs, nsend, sentLog, transported, active, program, composite, txLocal>>

WouldBlock(t, c) == NoMessage(t, c, "try_recv", "WouldBlock")

\* OsIpcReceiver::try_recv with nothing queued: would-block, or the channel is
\* closed.
try_recv_error(t, c) ==
    IF OsIpcReceiver_closed(c) THEN PeerClosed(t, c, "try_recv") ELSE WouldBlock(t, c)

\* A faulty try_recv that reports would-block whatever the backend returned: a
\* message that was there is taken and dropped.
try_recv_always_would_block(t, c) ==
    /\ Running(t)
    /\ stack[t] = <<>>
    /\ HoldsReceiver(t, c)
    /\ ret' = [ret EXCEPT ![t] = WouldBlock(t, c)]
    /\ queue' = IF queue[c] = <<>> THEN queue
                ELSE OsIpcReceiver_recv(queue, c).q
    /\ UNCHANGED <<deBufs, stack, recvLog>>
    /\ UNCHANGED <<rxLocal, serBufs, nsend, sentLog, transported, active, program, composite, txLocal>>

\* IpcReceiver::try_recv: the backend's would-block error is returned at once.
try_recv(t, c) ==
    /\ Running(t)
    /\ stack[t] = <<>>
    /\ HoldsReceiver(t, c)
    /\ IF queue[c] = <<>>
       THEN /\ ret' = [ret EXCEPT ![t] = try_recv_error(t, c)]
            /\ UNCHANGED <<queue, deBufs, stack, recvLog>>
       ELSE /\ to_begin(t, c, "try_recv")
            /\ UNCHANGED ret
    /\ UNCHANGED <<rxLocal, serBufs, nsend, sentLog, transported, active, program, composite, txLocal>>

\* A faulty poll that passes every error of try_recv on as an error.
Stream_poll_errors(r) ==
    [r EXCEPT !.op = "poll", !.res = IF r.res = "Ok" THEN "ReadySome" ELSE r.res]

\* impl Stream for IpcReceiver, poll, lines 189-200: the match on what
\* try_recv returned (r). A message is Ready(Some(msg)); the io error
\* ConnectionReset is Ready(None), WouldBlock is NotReady; any other error
\* is returned.
Stream_poll(r) ==
    [r EXCEPT !.op = "poll",
              !.res = CASE r.res = "Ok" -> "ReadySome"
                        [] r.res = "PeerClosed" -> "ReadyNone"
                        [] r.res = "WouldBlock" -> "NotReady"
                        [] OTHER -> r.res]

\* What the call that entered to() returns to the program.
Returned(f, r) == IF f.via = "poll" THEN Stream_poll(r) ELSE r

\* Stream::poll on a receiver: try_recv, then the match on its result.
poll(t, c) ==
    /\ Running(t)
    /\ stack[t] = <<>>
    /\ program = "poll"
    /\ HoldsReceiver(t, c)
    /\ IF queue[c] = <<>>
       THEN /\ ret' = [ret EXCEPT ![t] = Stream_poll(try_recv_error(t, c))]
            /\ UNCHANGED <<queue, deBufs, stack, recvLog>>
       ELSE /\ to_begin(t, c, "poll")
            /\ UNCHANGED ret
    /\ UNCHANGED <<rxLocal, serBufs, nsend, sentLog, transported, active, program, composite, txLocal>>

InDeserialize(t) ==
    /\ Running(t)
    /\ stack[t] # <<>>
    /\ Top(stack[t]).op = "to"
    /\ Top(stack[t]).pc = "deserialize"

\* What the deserializer meets next: an item's kind, the end of the input
\* where more is expected (Eof), or a tag of no variant (Invalid).
NextKind(f) ==
    IF f.rpos > Len(f.data) THEN "Eof"
    ELSE LET kind == KindOf(f.data[f.rpos])
         IN IF kind \in {"Byte", "Sender", "Receiver", "Memory", "Fetch"}
               /\ f.rpos + 1 > Len(f.data)
            THEN "Eof" ELSE kind

AtTag(t, kinds) ==
    /\ InDeserialize(t)
    /\ Top(stack[t]).left > 0
    /\ NextKind(Top(stack[t])) \in kinds

\* Whether the decoder of the resource met next finds its index in range (and,
\* for a region, the slot still full): otherwise the indexing or unwrap panics.
IndexOk(t) ==
    LET f == Top(stack[t])
        index == f.data[f.rpos + 1]
    IN IF NextKind(f) = "Memory"
       THEN /\ index < Len(OS_IPC_SHARED_MEMORY_REGIONS_FOR_DESERIALIZATION[t])
            /\ OS_IPC_SHARED_MEMORY_REGIONS_FOR_DESERIALIZATION[t][index + 1] # None
       ELSE index < Len(OS_IPC_CHANNELS_FOR_DESERIALIZATION[t])

\* The deserializer reads an item that embeds no resource.
deserialize_plain(t) ==
    /\ AtTag(t, {"Byte", "Relay"})
    /\ LET f == Top(stack[t])
       IN stack' = [stack EXCEPT ![t][Len(stack[t])] =
              IF NextKind(f) = "Byte"
              THEN [f EXCEPT !.rpos = @ + 2, !.left = @ - 1,
                             !.out = Append(@, Byte(f.data[f.rpos + 1]))]
              ELSE [f EXCEPT !.rpos = @ + 1, !.left = @ - 1,
                             !.out = Append(@, Relay(0, <<>>))]]
    /\ UNCHANGED <<queue, rxLocal, serBufs, deBufs, ret, nsend, logs, active, program, composite, txLocal>>

\* The deserializer reads an IpcSender.
deserialize_sender(t) ==
    /\ AtTag(t, {"Sender"})
    /\ IndexOk(t)
    /\ LET f == Top(stack[t])
           r == deserialize_os_ipc_sender(OS_IPC_CHANNELS_FOR_DESERIALIZATION[t],
                                          f.data[f.rpos + 1])
       IN /\ OS_IPC_CHANNELS_FOR_DESERIALIZATION' =
                 [OS_IPC_CHANNELS_FOR_DESERIALIZATION EXCEPT ![t] = r.buf]
          /\ stack' = [stack EXCEPT ![t][Len(stack[t])] =
                 [f EXCEPT !.rpos = @ + 2, !.left = @ - 1,
                           !.out = Append(@, Sender(r.c))]]
    /\ UNCHANGED <<queue, rxLocal, serBufs,
                   OS_IPC_SHARED_MEMORY_REGIONS_FOR_DESERIALIZATION,
                   ret, nsend, logs, active, program, composite, txLocal>>

\* The deserializer reads an IpcReceiver.
deserialize_receiver(t) ==
    /\ AtTag(t, {"Receiver"})
    /\ IndexOk(t)
    /\ LET f == Top(stack[t])
           r == IpcReceiver_deserialize(OS_IPC_CHANNELS_FOR_DESERIALIZATION[t],
                                        f.data[f.rpos + 1])
       IN /\ OS_IPC_CHANNELS_FOR_DESERIALIZATION' =
                 [OS_IPC_CHANNELS_FOR_DESERIALIZATION EXCEPT ![t] = r.buf]
          /\ stack' = [stack EXCEPT ![t][Len(stack[t])] =
                 [f EXCEPT !.rpos = @ + 2, !.left = @ - 1,
                           !.out = Append(@, Receiver(r.c))]]
    /\ UNCHANGED <<queue, rxLocal, serBufs,
                   OS_IPC_SHARED_MEMORY_REGIONS_FOR_DESERIALIZATION,
                   ret, nsend, logs, active, program, composite, txLocal>>

\* The deserializer reads an IpcSharedMemory.
deserialize_memory(t) ==
    /\ AtTag(t, {"Memory"})
    /\ IndexOk(t)
    /\ LET f == Top(stack[t])
           r == IpcSharedMemory_deserialize(
                    OS_IPC_SHARED_MEMORY_REGIONS_FOR_DESERIALIZATION[t],
                    f.data[f.rpos + 1])
       IN /\ OS_IPC_SHARED_MEMORY_REGIONS_FOR_DESERIALIZATION' =
                 [OS_IPC_SHARED_MEMORY_REGIONS_FOR_DESERIALIZATION EXCEPT ![t] = r.buf]
          /\ stack' = [stack EXCEPT ![t][Len(stack[t])] =
                 [f EXCEPT !.rpos = @ + 2, !.left = @ - 1,
                           !.out = Append(@, Memory(r.m))]]
    /\ UNCHANGED <<queue, rxLocal, serBufs, OS_IPC_CHANNELS_FOR_DESERIALIZATION,
                   ret, nsend, logs, active, program, composite, txLocal>>

\* A faulty decoder that answers an index out of bounds, or an empty slot, with
\* a deserialization error.
deserialize_panic_as_error(t) ==
    /\ AtTag(t, {"Sender", "Receiver", "Memory"})
    /\ ~IndexOk(t)
    /\ stack' = [stack EXCEPT ![t][Len(stack[t])].pc = "failed"]
    /\ UNCHANGED <<queue, rxLocal, serBufs, deBufs, ret, nsend, logs, active, program,
                   composite, txLocal>>


\* The index a resource's decoder read is out of bounds, or the region's slot
\* is None: the decoder panics (the FIXMEs at lines 209, 371, 566, 641). The
\* thread unwinds and ends: no call of it returns, its thread-locals are
\* destroyed with everything the unwound calls held.
deserialize_panic(t) ==
    /\ AtTag(t, {"Sender", "Receiver", "Memory"})
    /\ ~IndexOk(t)
    /\ stack' = [stack EXCEPT ![t] = <<>>]
    /\ ret' = [ret EXCEPT ![t] =
           [op |-> Top(stack[t]).via, res |-> "Panic", c |-> Top(stack[t]).c,
            sid |-> Top(stack[t]).sid, value |-> <<>>,
            sent |-> Top(stack[t]).sent, depth |-> Len(stack[t])]]
    /\ OS_IPC_CHANNELS_FOR_SERIALIZATION' =
           [OS_IPC_CHANNELS_FOR_SERIALIZATION EXCEPT ![t] = <<>>]
    /\ OS_IPC_SHARED_MEMORY_REGIONS_FOR_SERIALIZATION' =
           [OS_IPC_SHARED_MEMORY_REGIONS_FOR_SERIALIZATION EXCEPT ![t] = <<>>]
    /\ OS_IPC_CHANNELS_FOR_DESERIALIZATION' =
           [OS_IPC_CHANNELS_FOR_DESERIALIZATION EXCEPT ![t] = <<>>]
    /\ OS_IPC_SHARED_MEMORY_REGIONS_FOR_DESERIALIZATION' =
           [OS_IPC_SHARED_MEMORY_REGIONS_FOR_DESERIALIZATION EXCEPT ![t] = <<>>]
    /\ UNCHANGED <<queue, rxLocal, nsend, logs, active, program, composite, txLocal>>

\* The deserializer fails: a user type's decoder rejects its input, the tag is
\* of no variant, or the input ends early.
deserialize_error(t) ==
    /\ AtTag(t, {"BadDe", "BadSer", "Invalid", "Eof"})
    /\ stack' = [stack EXCEPT ![t][Len(stack[t])].pc = "failed"]
    /\ UNCHANGED <<queue, rxLocal, serBufs, deBufs, ret, nsend, logs, active, program, composite, txLocal>>

\* The deserializer reads a user type whose decoder calls try_recv on the
\* receiver of channel c, if the program holds it: a decode re-entered from
\* inside the deserializer when a message is there.
deserialize_fetch(t) ==
    /\ AtTag(t, {"Fetch"})
    /\ LET f == Top(stack[t])
           c == f.data[f.rpos + 1]
       IN IF c \in rxLocal /\ queue[c] # <<>>
          THEN /\ to_begin(t, c, "try_recv")
               /\ UNCHANGED ret
          ELSE /\ stack' = [stack EXCEPT ![t] = ResumeCaller(@)]
               /\ ret' = [ret EXCEPT ![t] =
                      IF c \in rxLocal THEN try_recv_error(t, c) ELSE @]
               /\ UNCHANGED <<queue, deBufs, recvLog>>
    /\ UNCHANGED <<rxLocal, serBufs, nsend, sentLog, transported, active, program, composite, txLocal>>

\* A faulty accept that hands the connection's receiver to the program whether
\* the first message decoded or not.
Accepted_in_any_case(f, ok) == IF f.via = "accept" THEN {f.c} ELSE {}

\* IpcOneShotServer::accept, lines 531-542: the receiver the backend gave is
\* returned with the value; when to() failed, try! has returned the error and
\* the receiver, a local of accept, is dropped.
Accepted(f, ok) == IF f.via = "accept" /\ ok THEN {f.c} ELSE {}

\* A faulty OpaqueIpcMessage::to that propagates the deserializer's error before
\* the cleanup (result? ahead of the swaps): on failure the message's vectors
\* stay in the thread-local buffers and what they held is dropped.
to_return_error_first(t) ==
    /\ Running(t)
    /\ stack[t] # <<>>
    /\ Top(stack[t]).op = "to"
    /\ \/ Top(stack[t]).pc = "failed"
       \/ Top(stack[t]).pc = "deserialize" /\ Top(stack[t]).left = 0
    /\ LET f == Top(stack[t])
           ok == f.pc = "deserialize"
       IN /\ OS_IPC_SHARED_MEMORY_REGIONS_FOR_DESERIALIZATION' =
                 IF ok
                 THEN [OS_IPC_SHARED_MEMORY_REGIONS_FOR_DESERIALIZATION EXCEPT ![t] =
                           f.os_ipc_shared_memory_regions]
                 ELSE OS_IPC_SHARED_MEMORY_REGIONS_FOR_DESERIALIZATION
          /\ OS_IPC_CHANNELS_FOR_DESERIALIZATION' =
                 IF ok
                 THEN [OS_IPC_CHANNELS_FOR_DESERIALIZATION EXCEPT ![t] =
                           f.os_ipc_channels]
                 ELSE OS_IPC_CHANNELS_FOR_DESERIALIZATION
          /\ stack' = [stack EXCEPT ![t] = ResumeCaller(Pop(@))]
          /\ rxLocal' = (IF ok THEN rxLocal \cup (ReceiversIn(f.out, 1) \cap Chan)
                         ELSE rxLocal) \cup Accepted(f, ok)
          /\ txLocal' = IF ok THEN [c \in Chan |-> txLocal[c] + SendersIn(f.out, c)]
                        ELSE txLocal
          /\ transported' = IF ok THEN HandedOver(f.out) ELSE transported
          /\ ret' = [ret EXCEPT ![t] = Returned(f,
                 [op |-> f.via, res |-> IF ok THEN "Ok" ELSE "DeErr", c |-> f.c,
                  sid |-> f.sid, value |-> IF ok THEN f.out ELSE <<>>,
                  sent |-> f.sent, depth |-> Len(stack[t])])]
    /\ UNCHANGED <<queue, serBufs, nsend, sentLog, recvLog, active, program,
                   composite>>

\* OpaqueIpcMessage::to, lines 468-474, and the return of recv / try_recv: the
\* buffers are swapped back whether the deserializer failed or not, the
\* message is dropped with what is left in its vectors, the result is returned.
\* A value returned is the caller's, with the receivers it embeds.
to_return(t) ==
    /\ Running(t)
    /\ stack[t] # <<>>
    /\ Top(stack[t]).op = "to"
    /\ \/ Top(stack[t]).pc = "failed"
       \/ Top(stack[t]).pc = "deserialize" /\ Top(stack[t]).left = 0
    /\ LET f == Top(stack[t])
           ok == f.pc = "deserialize"
       IN /\ OS_IPC_SHARED_MEMORY_REGIONS_FOR_DESERIALIZATION' =
                 [OS_IPC_SHARED_MEMORY_REGIONS_FOR_DESERIALIZATION EXCEPT ![t] =
                      f.os_ipc_shared_memory_regions]
          /\ OS_IPC_CHANNELS_FOR_DESERIALIZATION' =
                 [OS_IPC_CHANNELS_FOR_DESERIALIZATION EXCEPT ![t] = f.os_ipc_channels]
          /\ stack' = [stack EXCEPT ![t] = ResumeCaller(Pop(@))]
          /\ rxLocal' = (IF ok THEN rxLocal \cup (ReceiversIn(f.out, 1) \cap Chan)
                         ELSE rxLocal) \cup Accepted(f, ok)
          /\ txLocal' = IF ok THEN [c \in Chan |-> txLocal[c] + SendersIn(f.out, c)]
                        ELSE txLocal
          /\ transported' = IF ok THEN HandedOver(f.out) ELSE transported
          /\ ret' = [ret EXCEPT ![t] = Returned(f,
                 [op |-> f.via, res |-> IF ok THEN "Ok" ELSE "DeErr", c |-> f.c,
                  sid |-> f.sid, value |-> IF ok THEN f.out ELSE <<>>,
                  sent |-> f.sent, depth |-> Len(stack[t])])]
    /\ UNCHANGED <<queue, serBufs, nsend, sentLog, recvLog, active, program,
                   composite>>

\* ------------------------------------------------------- IpcReceiverSet
\* OsIpcReceiverSet::add: the receiver is moved into the set under the id the
\* Incrementor gives; the outcomes of one call, one for each outcome of
\* increment. When increment panics the set is as it was.
OsIpcReceiverSet_add(set, c) ==
    {IF inc.kind = "Ok"
     THEN [kind |-> "Ok",
           set |-> [incrementor |-> inc.self,
                    receivers |-> Append(set.receivers, [id |-> inc.value, c |-> c])],
           id |-> inc.value]
     ELSE [kind |-> "Panic", set |-> set, id |-> inc.value]
     : inc \in Incrementor_increment(set.incrementor)}

\* IpcReceiverSet::add and add_opaque (after to_opaque): the receiver is
\* consumed, the backend's id is returned. A panic of the backend's add unwinds
\* the thread as a panic of a decoder does: the receiver, moved into the call,
\* is dropped and nothing is added.
IpcReceiverSet_add(t, c, op) ==
    /\ Running(t)
    /\ program = "select"
    /\ stack[t] = <<>>
    /\ HoldsReceiver(t, c)
    /\ \E r \in OsIpcReceiverSet_add(os_receiver_set, c) :
          /\ os_receiver_set' = r.set
          /\ addLog' = IF r.kind = "Ok" THEN Append(addLog, [id |-> r.id, c |-> c])
                       ELSE addLog
          /\ ret' = [ret EXCEPT ![t] =
                 [op |-> op, res |-> r.kind, c |-> c, sid |-> 0,
                  value |-> IF r.kind = "Ok" THEN <<r.id>> ELSE <<>>,
                  sent |-> <<>>, depth |-> 1]]
          /\ LET after(buffers) == IF r.kind = "Ok" THEN buffers
                                   ELSE [buffers EXCEPT ![t] = <<>>]
             IN /\ OS_IPC_CHANNELS_FOR_SERIALIZATION' =
                       after(OS_IPC_CHANNELS_FOR_SERIALIZATION)
                /\ OS_IPC_SHARED_MEMORY_REGIONS_FOR_SERIALIZATION' =
                       after(OS_IPC_SHARED_MEMORY_REGIONS_FOR_SERIALIZATION)
                /\ OS_IPC_CHANNELS_FOR_DESERIALIZATION' =
                       after(OS_IPC_CHANNELS_FOR_DESERIALIZATION)
                /\ OS_IPC_SHARED_MEMORY_REGIONS_FOR_DESERIALIZATION' =
                       after(OS_IPC_SHARED_MEMORY_REGIONS_FOR_DESERIALIZATION)
    /\ rxLocal' = rxLocal \ {c}
    /\ UNCHANGED <<queue, txLocal, stack, nsend, logs, results,
                   os_server, active, program>>

RECURSIVE Ascending(_)
Ascending(S) ==
    IF S = {} THEN <<>>
    ELSE LET m == CHOOSE x \in S : \A y \in S : x <= y
         IN <<m>> \o Ascending(S \ {m})

\* The registered receivers with activity: a message queued, or closed.
Ready(set) ==
    {i \in 1..Len(set.receivers) :
         \/ queue[set.receivers[i].c] # <<>>
         \/ OsIpcReceiver_closed(set.receivers[i].c)}

\* OsIpcReceiverSet::select: one event for each receiver the backend found
\* ready (polled, some of those with activity), in the order of registration:
\* its oldest message, or its closure.
OsIpcReceiverSet_select(set, polled) ==
    LET order == Ascending(polled)
    IN [k \in 1..Len(order) |->
           LET r == set.receivers[order[k]]
           IN IF queue[r.c] # <<>>
              THEN [kind |-> "DataReceived", id |-> r.id, c |-> r.c,
                    msg |-> Head(queue[r.c])]
              ELSE [kind |-> "ChannelClosed", id |-> r.id, c |-> r.c]]

\* A mapping that labels a result with the channel instead of the id of add.
IpcSelectionResult_from_channel(result) ==
    IF result.kind = "DataReceived"
    THEN [kind |-> "MessageReceived", id |-> U64(result.c), c |-> result.c,
          sid |-> result.msg.sid, v |-> result.msg.v,
          message |->
              [data |-> result.msg.data,
               os_ipc_channels |-> result.msg.channels,
               os_ipc_shared_memory_regions |->
                   [i \in 1..Len(result.msg.regions) |-> Some(result.msg.regions[i])]]]
    ELSE [kind |-> "ChannelClosed", id |-> U64(result.c), c |-> result.c]

\* IpcReceiverSet::select, lines 329-347: the closure mapped over the results.
IpcSelectionResult_from(result) ==
    IF result.kind = "DataReceived"
    THEN [kind |-> "MessageReceived", id |-> result.id, c |-> result.c,
          sid |-> result.msg.sid, v |-> result.msg.v,
          message |->
              [data |-> result.msg.data,
               os_ipc_channels |-> result.msg.channels,
               os_ipc_shared_memory_regions |->
                   [i \in 1..Len(result.msg.regions) |-> Some(result.msg.regions[i])]]]
    ELSE [kind |-> "ChannelClosed", id |-> result.id, c |-> result.c]

\* IpcReceiverSet::select: blocks until the backend reports activity.
IpcReceiverSet_select(t, polled) ==
    /\ Running(t)
    /\ stack[t] = <<>>
    /\ results = <<>>
    /\ polled # {}
    /\ polled \subseteq Ready(os_receiver_set)
    /\ LET events == OsIpcReceiverSet_select(os_receiver_set, polled)
           got(c) == \E k \in 1..Len(events) :
                         events[k].kind = "DataReceived" /\ events[k].c = c
           closed(c) == \E k \in 1..Len(events) :
                            events[k].kind = "ChannelClosed" /\ events[k].c = c
       IN /\ queue' = [c \in Chan |-> IF got(c) THEN Tail(queue[c]) ELSE queue[c]]
          /\ recvLog' = [c \in Chan |->
                             IF got(c) THEN Append(recvLog[c], Head(queue[c]).sid)
                             ELSE recvLog[c]]
          /\ os_receiver_set' =
                 [os_receiver_set EXCEPT !.receivers =
                      SelectSeq(@, LAMBDA r : ~closed(r.c))]
          /\ results' = [k \in 1..Len(events) |-> IpcSelectionResult_from(events[k])]
          /\ ret' = [ret EXCEPT ![t] =
                 [op |-> "select", res |-> "Ok", c |-> 0, sid |-> 0,
                  value |-> [k \in 1..Len(events) |-> events[k].id],
                  sent |-> <<>>, depth |-> 1]]
    /\ UNCHANGED <<rxLocal, txLocal, serBufs, deBufs, stack, nsend, sentLog, transported, addLog,
                   os_server, active, program>>

\* IpcSelectionResult::unwrap, lines 417-425: a MessageReceived gives its id
\* and its message, a ChannelClosed panics.
IpcSelectionResult_unwrap(self) ==
    IF self.kind = "MessageReceived"
    THEN [kind |-> "Ok", id |-> self.id, message |-> self.message]
    ELSE [kind |-> "Panic", id |-> self.id]

\* The program takes the next result, a MessageReceived, with unwrap() or with
\* a match, which give the same pair, and decodes its message with
\* OpaqueIpcMessage::to.
IpcSelectionResult_to(t) ==
    /\ Running(t)
    /\ stack[t] = <<>>
    /\ results # <<>>
    /\ IpcSelectionResult_unwrap(Head(results)).kind = "Ok"
    /\ results' = Tail(results)
    /\ OpaqueIpcMessage_to(t, Head(results).c, "to", Head(results),
                           IpcSelectionResult_unwrap(Head(results)).message)
    /\ UNCHANGED <<queue, rxLocal, txLocal, serBufs, ret, nsend, logs,
                   os_receiver_set, addLog, os_server, active, program>>

\* The program takes the next result, a ChannelClosed, with unwrap(): the
\* panic of line 422 unwinds the thread, which ends; the result, moved into the
\* call, is dropped.
unwrap_ChannelClosed(t) ==
    /\ Running(t)
    /\ stack[t] = <<>>
    /\ results # <<>>
    /\ IpcSelectionResult_unwrap(Head(results)).kind = "Panic"
    /\ results' = Tail(results)
    /\ ret' = [ret EXCEPT ![t] =
           [op |-> "unwrap", res |-> "Panic", c |-> Head(results).c,
            sid |-> 0, value |-> <<>>, sent |-> <<>>, depth |-> 1]]
    /\ OS_IPC_CHANNELS_FOR_SERIALIZATION' =
           [OS_IPC_CHANNELS_FOR_SERIALIZATION EXCEPT ![t] = <<>>]
    /\ OS_IPC_SHARED_MEMORY_REGIONS_FOR_SERIALIZATION' =
           [OS_IPC_SHARED_MEMORY_REGIONS_FOR_SERIALIZATION EXCEPT ![t] = <<>>]
    /\ OS_IPC_CHANNELS_FOR_DESERIALIZATION' =
           [OS_IPC_CHANNELS_FOR_DESERIALIZATION EXCEPT ![t] = <<>>]
    /\ OS_IPC_SHARED_MEMORY_REGIONS_FOR_DESERIALIZATION' =
           [OS_IPC_SHARED_MEMORY_REGIONS_FOR_DESERIALIZATION EXCEPT ![t] = <<>>]
    /\ UNCHANGED <<queue, rxLocal, txLocal, stack, nsend, logs,
                   os_receiver_set, addLog, os_server, active, program>>

\* The program takes the next result, a ChannelClosed, with a match.
IpcSelectionResult_closed(t) ==
    /\ Running(t)
    /\ stack[t] = <<>>
    /\ results # <<>>
    /\ Head(results).kind = "ChannelClosed"
    /\ results' = Tail(results)
    /\ ret' = [ret EXCEPT ![t] =
           [op |-> "select", res |-> "ChannelClosed", c |-> Head(results).c,
            sid |-> 0, value |-> <<Head(results).id>>, sent |-> <<>>, depth |-> 1]]
    /\ UNCHANGED <<queue, rxLocal, txLocal, serBufs, deBufs, stack, nsend, logs,
                   os_receiver_set, addLog, os_server, active, program>>

\* ------------------------------------------------------ bytes channels
\* IpcBytesSender::send (line 621): the slice goes to the backend with two
\* empty vectors, and the backend's result is returned.
IpcBytesSender_send(t, c, data) ==
    /\ Running(t)
    /\ stack[t] = <<>>
    /\ program = "bytes"
    /\ nsend < MaxSends
    /\ txLocal[c] > 0
    /\ nsend' = nsend + 1
    /\ LET ok == OsIpcSender_connected(c)
           msg == [sid |-> nsend + 1, data |-> data, channels |-> <<>>,
                   regions |-> <<>>, v |-> AsValue(data)]
       IN /\ queue' = IF ok THEN OsIpcSender_send(queue, c, msg) ELSE queue
          /\ sentLog' = IF ok THEN [sentLog EXCEPT ![c] = Append(@, nsend + 1)]
                        ELSE sentLog
          /\ ret' = [ret EXCEPT ![t] =
                 [op |-> "bytes_send", res |-> IF ok THEN "Ok" ELSE "OsErr", c |-> c,
                  sid |-> nsend + 1, value |-> data, sent |-> AsValue(data),
                  depth |-> 1]]
    /\ UNCHANGED <<rxLocal, txLocal, serBufs, deBufs, stack, recvLog, transported, composite,
                   active, program>>

\* A faulty recv that keeps the senders of the handle vector it was given.
IpcBytesReceiver_recv_keeps_handles(t, c) ==
    /\ Running(t)
    /\ stack[t] = <<>>
    /\ HoldsBytesReceiver(t, c)
    /\ queue[c] # <<>>
    /\ LET got == OsIpcReceiver_recv(queue, c)
       IN /\ queue' = got.q
          /\ recvLog' = [recvLog EXCEPT ![c] = Append(@, got.msg.sid)]
          /\ txLocal' = [d \in Chan |-> txLocal[d] + CountTx(got.msg.channels, d)]
          /\ ret' = [ret EXCEPT ![t] =
                 [op |-> "bytes_recv", res |-> "Ok", c |-> c, sid |-> got.msg.sid,
                  value |-> got.msg.data, sent |-> got.msg.v, depth |-> 1]]
    /\ UNCHANGED <<rxLocal, serBufs, deBufs, stack, nsend, sentLog, transported, composite,
                   active, program>>

\* IpcBytesReceiver::recv (lines 553-558): blocks until the backend has a
\* message or reports the channel closed; of (data, _, _) the data is
\* returned, the two vectors are dropped with what they hold.
IpcBytesReceiver_recv(t, c) ==
    /\ Running(t)
    /\ stack[t] = <<>>
    /\ HoldsBytesReceiver(t, c)
    /\ IF queue[c] # <<>>
       THEN LET got == OsIpcReceiver_recv(queue, c)
            IN /\ queue' = got.q
               /\ recvLog' = [recvLog EXCEPT ![c] = Append(@, got.msg.sid)]
               /\ ret' = [ret EXCEPT ![t] =
                      [op |-> "bytes_recv", res |-> "Ok", c |-> c,
                       sid |-> got.msg.sid, value |-> got.msg.data,
                       sent |-> got.msg.v, depth |-> 1]]
       ELSE /\ OsIpcReceiver_closed(c)
            /\ ret' = [ret EXCEPT ![t] = PeerClosed(t, c, "bytes_recv")]
            /\ UNCHANGED <<queue, recvLog>>
    /\ UNCHANGED <<rxLocal, txLocal, serBufs, deBufs, stack, nsend, sentLog, transported,
                   composite, active, program>>

\* -------------------------------------------------- IpcOneShotServer
\* IpcOneShotServer::new: the backend creates the server and its name.
IpcOneShotServer_new(t) ==
    /\ Running(t)
    /\ stack[t] = <<>>
    /\ program = "oneshot"
    /\ os_server = "none"
    /\ os_server' = "listening"
    /\ ret' = [ret EXCEPT ![t] =
           [op |-> "new", res |-> "Ok", c |-> ServerName, sid |-> 0,
            value |-> <<>>, sent |-> <<>>, depth |-> 1]]
    /\ UNCHANGED <<queue, rxLocal, txLocal, serBufs, deBufs, stack, nsend, logs,
                   os_receiver_set, addLog, results, active, program>>

\* IpcSender::connect(name): a sender to the server of that name. The backend
\* takes one connection, while the server has not accepted.
IpcSender_connect(t, name) ==
    /\ Running(t)
    /\ stack[t] = <<>>
    /\ os_server = "listening"
    /\ name = ServerName
    /\ txLocal[name] = 0
    /\ txLocal' = [txLocal EXCEPT ![name] = 1]
    /\ transported' = [transported EXCEPT !.held = @ \ {name}]
    /\ ret' = [ret EXCEPT ![t] =
           [op |-> "connect", res |-> "Ok", c |-> name, sid |-> 0,
            value |-> <<>>, sent |-> <<>>, depth |-> 1]]
    /\ UNCHANGED <<queue, rxLocal, serBufs, deBufs, stack, nsend, sentLog, recvLog,
                   composite, active, program>>

\* OsIpcOneShotServer::accept: the receiver of the connection and the first
\* message that arrived on it.
OsIpcOneShotServer_accept(q, c) == OsIpcReceiver_recv(q, c)

\* A faulty accept that leaves the first message on the connection.
IpcOneShotServer_accept_peek(t) ==
    /\ Running(t)
    /\ stack[t] = <<>>
    /\ os_server = "listening"
    /\ queue[ServerName] # <<>>
    /\ LET got == OsIpcOneShotServer_accept(queue, ServerName)
           self == [data |-> got.msg.data,
                    os_ipc_channels |-> got.msg.channels,
                    os_ipc_shared_memory_regions |->
                        [i \in 1..Len(got.msg.regions) |-> Some(got.msg.regions[i])]]
       IN /\ queue' = queue
          /\ recvLog' = [recvLog EXCEPT ![ServerName] = Append(@, got.msg.sid)]
          /\ OpaqueIpcMessage_to(t, ServerName, "accept", got.msg, self)
    /\ os_server' = "accepted"
    /\ UNCHANGED <<rxLocal, txLocal, serBufs, ret, nsend, sentLog, transported,
                   os_receiver_set, addLog, results, active, program>>

\* IpcOneShotServer::accept, lines 529-538: blocks until a peer has connected
\* and its first message is there; the message is decoded by to().
IpcOneShotServer_accept(t) ==
    /\ Running(t)
    /\ stack[t] = <<>>
    /\ os_server = "listening"
    /\ queue[ServerName] # <<>>
    /\ LET got == OsIpcOneShotServer_accept(queue, ServerName)
           self == [data |-> got.msg.data,
                    os_ipc_channels |-> got.msg.channels,
                    os_ipc_shared_memory_regions |->
                        [i \in 1..Len(got.msg.regions) |-> Some(got.msg.regions[i])]]
       IN /\ queue' = got.q
          /\ recvLog' = [recvLog EXCEPT ![ServerName] = Append(@, got.msg.sid)]
          /\ OpaqueIpcMessage_to(t, ServerName, "accept", got.msg, self)
    /\ os_server' = "accepted"
    /\ UNCHANGED <<rxLocal, txLocal, serBufs, ret, nsend, sentLog, transported,
                   os_receiver_set, addLog, results, active, program>>

Next ==
    \E t \in Thread :
        \/ \E c \in Chan, val \in Values(program) : send(t, c, val)
        \/ serialize_plain(t)
        \/ serialize_sender(t)
        \/ serialize_receiver(t)
        \/ serialize_memory(t)
        \/ serialize_relay(t)
        \/ send_serialize_error(t)
        \/ send_swap_out(t)
        \/ send_os_send(t)
        \/ \E c \in Chan : IpcSender_clone(t, c)
        \/ \E c \in Chan, data \in Slices : IpcBytesSender_send(t, c, data)
        \/ \E c \in Chan : IpcBytesReceiver_recv(t, c)
        \/ \E c \in Chan : poll(t, c)
        \/ IpcOneShotServer_new(t)
        \/ \E name \in Chan : IpcSender_connect(t, name)
        \/ IpcOneShotServer_accept(t)
        \/ \E c \in Chan : drop_sender(t, c)
        \/ \E c \in Chan : drop_receiver(t, c)
        \/ \E c \in Chan : recv(t, c)
        \/ \E c \in Chan : try_recv(t, c)
        \/ deserialize_plain(t)
        \/ deserialize_sender(t)
        \/ deserialize_receiver(t)
        \/ deserialize_memory(t)
        \/ deserialize_panic(t)
        \/ deserialize_error(t)
        \/ deserialize_fetch(t)
        \/ to_return(t)
        \/ \E c \in Chan, op \in {"add", "add_opaque"} : IpcReceiverSet_add(t, c, op)
        \/ \E polled \in SUBSET (1..Len(os_receiver_set.receivers)) :
               IpcReceiverSet_select(t, polled)
        \/ IpcSelectionResult_to(t)
        \/ IpcSelectionResult_closed(t)
        \/ unwrap_ChannelClosed(t)

Spec == Init /\ [][Next]_vars

\* ================================================================== claims
\* A step in which the innermost call of thread t, a send, returns.
SendReturns(t) ==
    /\ stack[t] # <<>>
    /\ Top(stack[t]).op = "send"
    /\ Len(stack'[t]) < Len(stack[t])

\* A step in which the innermost call of thread t, a to, returns (a panic
\* unwinds the thread and returns from nothing).
ToReturns(t) ==
    /\ stack[t] # <<>>
    /\ Top(stack[t]).op = "to"
    /\ Len(stack'[t]) < Len(stack[t])
    /\ ret'[t].res # "Panic"

SidsOf(entries) == {entries[i].sid : i \in 1..Len(entries)}

\* The sends whose encoders pushed a handle or region that is still held
\* somewhere: in a thread's outbound buffers, in a send in progress, in a
\* queued message.
HeldSids ==
    UNION {SidsOf(OS_IPC_CHANNELS_FOR_SERIALIZATION[t])
           \cup SidsOf(OS_IPC_SHARED_MEMORY_REGIONS_FOR_SERIALIZATION[t]) : t \in Thread}
    \cup UNION {UNION {SidsOf(stack[t][i].os_ipc_channels)
                       \cup (IF stack[t][i].op = "send"
                             THEN SidsOf(stack[t][i].old_os_ipc_channels)
                                  \cup SidsOf(stack[t][i].old_os_ipc_shared_memory_regions)
                                  \cup SidsOf(stack[t][i].os_ipc_shared_memory_regions)
                             ELSE {}) : i \in 1..Len(stack[t])} : t \in Thread}
    \cup UNION {UNION {SidsOf(queue[c][i].channels) \cup SidsOf(queue[c][i].regions)
                       : i \in 1..Len(queue[c])} : c \in Chan}

\* C1: when a send has returned an error, no handle or region its encoders
\* appended to the outbound buffers is still held anywhere: all were dropped.
C1_FailedSendDropsHandles ==
    \A t \in Thread :
        (ret[t].op = "send" /\ ret[t].res \in {"SerErr", "OsErr"})
            => ret[t].sid \notin HeldSids

\* C2: a send that returns the serializer's error leaves the thread's outbound
\* buffers exactly as they were when that send was entered.
C2_SerializerFailureRestores ==
    [][\A t \in Thread :
          (SendReturns(t) /\ ret'[t].res = "SerErr")
              => /\ OS_IPC_CHANNELS_FOR_SERIALIZATION'[t]
                        = Top(stack[t]).entry_channels
                 /\ OS_IPC_SHARED_MEMORY_REGIONS_FOR_SERIALIZATION'[t]
                        = Top(stack[t]).entry_regions]_vars

\* The side-band vectors and the payload the protocol prescribes for a value:
\* one entry per embedded resource in the order the encoder visits them, each
\* written to the payload as the number of resources of its vector before it.
Endpoints == {"Sender", "Receiver"}

ExpectedChannels(val, sid) ==
    LET es == SelectSeq(val, LAMBDA it : it.k \in Endpoints)
    IN [i \in 1..Len(es) |-> OsIpcChannel(es[i].k, es[i].a, sid)]

ExpectedRegions(val, sid) ==
    LET ms == SelectSeq(val, LAMBDA it : it.k = "Memory")
    IN [i \in 1..Len(ms) |-> OsIpcSharedMemory(ms[i].a, sid)]

Before(val, i, kinds) == Cardinality({j \in 1..(i - 1) : val[j].k \in kinds})

ExpectedTokens(val, i) ==
    CASE val[i].k \in Endpoints -> <<TagOf(val[i].k), Before(val, i, Endpoints)>>
      [] val[i].k = "Memory" -> <<TagOf(val[i].k), Before(val, i, {"Memory"})>>
      [] val[i].k \in {"Byte", "Fetch"} -> <<TagOf(val[i].k), val[i].a>>
      [] OTHER -> <<TagOf(val[i].k)>>

RECURSIVE ExpectedFrom(_, _)
ExpectedFrom(val, i) ==
    IF i > Len(val) THEN <<>> ELSE ExpectedTokens(val, i) \o ExpectedFrom(val, i + 1)

ExpectedPayload(val) == <<Len(val)>> \o ExpectedFrom(val, 1)

Messages == UNION {Range(queue[c]) : c \in Chan}

\* Every queued message carries the handles and regions of the value its own
\* send was given, in visit order, and nothing of another send.
MessagesCarryOwn ==
    \A m \in Messages :
        /\ m.channels = ExpectedChannels(m.v, m.sid)
        /\ m.regions = ExpectedRegions(m.v, m.sid)

\* C3: when a send made from inside an encoder of an outer send returns,
\* whatever its outcome, the thread's outbound buffers hold what the outer send
\* had accumulated when the inner one was entered; so every message delivered
\* carries exactly its own value's handles and regions, in visit order.
C3_ReentrantSendKeepsOuter ==
    [][/\ \A t \in Thread :
             (SendReturns(t) /\ Len(stack[t]) >= 2)
                 => /\ OS_IPC_CHANNELS_FOR_SERIALIZATION'[t]
                           = Top(stack[t]).entry_channels
                    /\ OS_IPC_SHARED_MEMORY_REGIONS_FOR_SERIALIZATION'[t]
                           = Top(stack[t]).entry_regions
       /\ MessagesCarryOwn']_vars

Pure(val) == \A i \in 1..Len(val) : val[i].k = "Byte"
BuiltIn(val) ==
    \A i \in 1..Len(val) : val[i].k \in {"Byte", "Sender", "Receiver", "Memory"}

\* The last call thread t returned from was a receive that got a message.
Received(t) ==
    /\ ret[t].op \in {"recv", "try_recv"}
    /\ ret[t].res \notin {"WouldBlock", "PeerClosed"}

\* C4: the recv (or try_recv) that consumes the message of a value that embeds
\* no endpoint and no region succeeds and returns a value equal to it.
C4_PureRoundTrip ==
    \A t \in Thread :
        (Received(t) /\ Pure(ret[t].sent))
            => ret[t].res = "Ok" /\ ret[t].value = ret[t].sent

C4_Witness ==
    \E t \in Thread :
        /\ Received(t)
        /\ ret[t].res = "Ok"
        /\ ret[t].value = <<Byte(255), Byte(0)>>

QueueSids(c) == [i \in 1..Len(queue[c]) |-> queue[c][i].sid]

\* C5: on every channel, the messages pulled by recv and try_recv so far,
\* followed by those still queued, are the messages sent, in the order sent:
\* none is reordered, duplicated or skipped.
C5_Fifo ==
    \A c \in Chan : recvLog[c] \o QueueSids(c) = sentLog[c]

C5_Witness ==
    \E c \in Chan : Len(recvLog[c]) = 2 /\ queue[c] = <<>>

\* C6: the receive of a message whose value is made of bytes and endpoints
\* succeeds, and every sender in the value returned is a sender of the channel
\* of the sender sent in its place: what is sent on it goes to that channel's
\* receiver.
C6_TransportedSenderKeepsItsChannel ==
    \A t \in Thread :
        (Received(t) /\ BuiltIn(ret[t].sent))
            => /\ ret[t].res = "Ok"
               /\ Len(ret[t].value) = Len(ret[t].sent)
               /\ \A i \in 1..Len(ret[t].sent) :
                      ret[t].sent[i].k = "Sender" => ret[t].value[i] = ret[t].sent[i]

\* a.send(c) and the program dropped its c; b.recv() gave c', the only sender
\* of (c, d) the program then held; a value was sent on c' and d.recv()
\* returned it.
C6_Witness ==
    \E t \in Thread :
        /\ Received(t)
        /\ ret[t].c = 2
        /\ ret[t].res = "Ok"
        /\ ret[t].value = <<Byte(1)>>
        /\ 2 \in transported.held
        /\ ret[t].sid \in transported.sends
        /\ recvLog[1] # <<>>
        /\ \A i \in 1..Len(recvLog[1]) : recvLog[1][i] < ret[t].sid

Quiescent == \A t \in Thread : stack[t] = <<>> /\ ret[t].res # "Panic"

InFlightRx(c) ==
    SumFn([d \in Chan |->
             SumFn([i \in 1..Len(queue[d]) |-> CountRx(queue[d][i].channels, c)])])

\* The receiver endpoints of channel c the program holds between calls: in
\* hand, in its receiver set, in its one-shot server not yet accepted, or in a
\* message select returned to it.
EndpointsRx(c) ==
    (IF c \in rxLocal THEN 1 ELSE 0)
    + (IF c \in SetChannels THEN 1 ELSE 0)
    + (IF os_server = "listening" /\ c = ServerName THEN 1 ELSE 0)
    + SumFn([i \in 1..Len(results) |-> CountRx(ResultChannels(results[i]), c)])

\* C7: a channel's receiver handle never has two owners; between calls its
\* owner is a receiver endpoint the program holds or a message in flight (or
\* the handle is closed). After a successful send of a value that embeds a
\* receiver the program holds no receiver of that channel, and the receiver
\* decoded from the message is the one of that channel.
C7_ReceiverHasOneOwner ==
    /\ \A c \in Chan :
          /\ RxHolders(c) <= 1
          /\ Quiescent =>
                 RxHolders(c) = EndpointsRx(c) + InFlightRx(c)
    /\ \A t \in Thread :
          /\ (ret[t].op = "send" /\ ret[t].res = "Ok")
                 => ReceiversIn(ret[t].sent, 1) \cap rxLocal = {}
          /\ (Received(t) /\ BuiltIn(ret[t].sent))
                 => /\ ret[t].res = "Ok"
                    /\ ReceiversIn(ret[t].value, 1) = ReceiversIn(ret[t].sent, 1)

\* C8: when OpaqueIpcMessage::to returns, with Ok or with Err, the thread's
\* inbound buffers hold exactly what they held when it was entered, also when
\* it was entered from inside a decoder of an outer to.
C8_ToRestoresInbound ==
    [][\A t \in Thread :
          ToReturns(t)
              => /\ OS_IPC_CHANNELS_FOR_DESERIALIZATION'[t]
                        = Top(stack[t]).entry_channels
                 /\ OS_IPC_SHARED_MEMORY_REGIONS_FOR_DESERIALIZATION'[t]
                        = Top(stack[t]).entry_regions]_vars

\* An inner to returned Err to the decoder of an outer to that had already
\* taken a handle out of its buffers.
C8_Witness ==
    \E t \in Thread :
        /\ Len(stack[t]) = 1
        /\ Top(stack[t]).op = "to"
        /\ ret[t].op = "try_recv"
        /\ ret[t].res = "DeErr"
        /\ ret[t].depth = 2
        /\ \E i \in 1..Len(OS_IPC_CHANNELS_FOR_DESERIALIZATION[t]) :
               OS_IPC_CHANNELS_FOR_DESERIALIZATION[t][i].kind = "Taken"

StripSid(chans) == [i \in 1..Len(chans) |-> [kind |-> chans[i].kind, c |-> chans[i].c]]
RegionIds(regions) == [i \in 1..Len(regions) |-> regions[i].m]

\* C9: in every message a send produced, the k-th endpoint the encoder visited
\* is written to the payload as index k-1 and is at position k-1 of the handle
\* vector, and likewise the k-th region in the memory vector; both numberings
\* start at zero.
C9_IndicesFollowVisitOrder ==
    \A m \in Messages :
        /\ m.data = ExpectedPayload(m.v)
        /\ StripSid(m.channels) = StripSid(ExpectedChannels(m.v, 0))
        /\ RegionIds(m.regions) = RegionIds(ExpectedRegions(m.v, 0))

\* A step in which thread t's try_recv returns without a message: the backend
\* had none to give.
TryRecvGetsNothing(t) ==
    /\ ret'[t] # ret[t]
    /\ ret'[t].op = "try_recv"
    /\ ret'[t].res # "Panic"
    /\ ~ToReturns(t)

\* What such a step leaves alone: the queues, the endpoints held, the
\* thread-local buffers, the history; the caller goes on where it was.
TryRecvChangesNothing(t) ==
    /\ UNCHANGED <<queue, rxLocal, txLocal, serBufs, deBufs, sentLog, recvLog,
                   nsend, composite>>
    /\ ret'[t].depth = 1 => UNCHANGED stack

\* A step in which thread t's recv or try_recv pulls a message of channel c
\* from the backend and begins to decode it.
Pulls(t, c) ==
    /\ Len(stack'[t]) > Len(stack[t])
    /\ Top(stack'[t]).op = "to"
    /\ Top(stack'[t]).via \in {"recv", "try_recv"}
    /\ Top(stack'[t]).c = c

\* The message pulled is the oldest one queued, whole; it leaves the queue and
\* nothing else does.
PullsOldest(t, c) ==
    /\ queue[c] # <<>>
    /\ Top(stack'[t]).sid = Head(queue[c]).sid
    /\ Top(stack'[t]).data = Head(queue[c]).data
    /\ queue' = [queue EXCEPT ![c] = Tail(@)]
    /\ recvLog' = [recvLog EXCEPT ![c] = Append(@, Head(queue[c]).sid)]
    /\ sentLog' = sentLog

\* A step in which the recv or try_recv of thread t that pulled a message
\* returns.
PullReturns(t) ==
    /\ ToReturns(t)
    /\ Top(stack[t]).via \in {"recv", "try_recv"}

\* A step in which the decoder of the message thread t's recv or try_recv
\* pulled panics: the call does not return, the thread unwinds.
PullPanics(t) ==
    /\ ret'[t] # ret[t]
    /\ ret'[t].op \in {"recv", "try_recv"}
    /\ ret'[t].res = "Panic"

\* C10 as stated: a try_recv that finds no message queued returns would-block
\* and changes nothing; every message is pulled once, in the order sent, and
\* the recv or try_recv that pulled it returns it, successfully.
C10_EveryMessageIsReturned ==
    [][\A t \in Thread :
          /\ TryRecvGetsNothing(t) =>
                 /\ queue[ret'[t].c] = <<>>
                 /\ ret'[t].res = "WouldBlock"
                 /\ TryRecvChangesNothing(t)
          /\ \A c \in Chan : Pulls(t, c) => PullsOldest(t, c)
          /\ PullReturns(t) =>
                 /\ ret'[t].res = "Ok"
                 /\ ret'[t].sid = Top(stack[t]).sid
          /\ ~PullPanics(t)]_vars

\* C10: a try_recv on a channel with no message queued returns at once and
\* changes nothing: would-block while a sender of the channel is alive, the
\* backend's closed error once none is. A try_recv never returns without a
\* message when one is queued. Every message is pulled once, in the order
\* sent, by a recv or a try_recv, and that call is the only one to return it:
\* it returns the message's value when the decode succeeds and the decoder's
\* error when it does not, and does not return when the decoder panics, the
\* message being consumed in every case.
C10_TryRecvLosesNothing ==
    [][\A t \in Thread :
          /\ TryRecvGetsNothing(t) =>
                 /\ queue[ret'[t].c] = <<>>
                 /\ ret'[t].res = IF OsIpcReceiver_closed(ret'[t].c)
                                  THEN "PeerClosed" ELSE "WouldBlock"
                 /\ TryRecvChangesNothing(t)
          /\ \A c \in Chan : Pulls(t, c) => PullsOldest(t, c)
          /\ PullReturns(t) =>
                 /\ ret'[t].res \in {"Ok", "DeErr"}
                 /\ ret'[t].sid = Top(stack[t]).sid
                 /\ ret'[t].c = Top(stack[t]).c
                 /\ ret'[t].res = "Ok" => ret'[t].value = Top(stack[t]).out
                 /\ ret'[t].res # "Ok" => ret'[t].value = <<>>
                 /\ UNCHANGED <<queue, sentLog, recvLog>>
          /\ PullPanics(t) =>
                 /\ stack[t] # <<>>
                 /\ ret'[t].sid = Top(stack[t]).sid
                 /\ ret'[t].value = <<>>
                 /\ UNCHANGED <<queue, sentLog, recvLog>>]_vars

\* try_recv found the channel empty, a sender alive, after its messages had
\* been taken and returned.
C10_Witness ==
    \E t \in Thread :
        /\ ret[t].op = "try_recv"
        /\ ret[t].res = "WouldBlock"
        /\ txLocal[ret[t].c] > 0
        /\ recvLog[ret[t].c] # <<>>
        /\ recvLog[ret[t].c] = sentLog[ret[t].c]

InFlightTx(c) ==
    SumFn([d \in Chan |->
             SumFn([i \in 1..Len(queue[d]) |-> CountTx(queue[d][i].channels, c)])])

\* Every sender endpoint of channel c has been dropped: the program holds
\* none, and none travels in a message or lies in one that select returned.
AllSendersDropped(c) ==
    /\ txLocal[c] = 0
    /\ InFlightTx(c) = 0
    /\ \A i \in 1..Len(results) : CountTx(ResultChannels(results[i]), c) = 0

\* C11: once every sender endpoint of a channel has been dropped, the messages
\* queued are still received, and with the queue empty recv on the paired
\* receiver returns peer-closed instead of blocking: the sending end is
\* closed. A recv that returned peer-closed had received every message sent.
C11_ClosedAfterLastSenderDropped ==
    /\ \A c \in Chan :
          (Quiescent /\ c \in rxLocal /\ AllSendersDropped(c) /\ queue[c] = <<>>)
              => OsIpcReceiver_closed(c)
    /\ \A t \in Thread :
          ret[t].res = "PeerClosed"
              => /\ queue[ret[t].c] = <<>>
                 /\ recvLog[ret[t].c] = sentLog[ret[t].c]

\* recv returned peer-closed after it had received what was sent.
C11_Witness ==
    \E t \in Thread :
        /\ ret[t].op = "recv"
        /\ ret[t].res = "PeerClosed"
        /\ recvLog[ret[t].c] # <<>>

\* The messages being decoded: one per call of to in progress.
Decoding ==
    UNION {{stack[t][i] : i \in {j \in 1..Len(stack[t]) : stack[t][j].op = "to"}}
           : t \in Thread}

\* C12: when senders send concurrently from several threads, the message a
\* receive pulls is the payload of one send together with the handles and
\* regions of that same send, all of them and nothing of another send.
C12_ConcurrentSendsAreAtomic ==
    Cardinality(active) > 1 =>
        \A f \in Decoding :
            /\ f.data = ExpectedPayload(f.sent)
            /\ f.msg_channels = ExpectedChannels(f.sent, f.sid)
            /\ f.msg_regions
                   = [i \in 1..Len(ExpectedRegions(f.sent, f.sid)) |->
                          Some(ExpectedRegions(f.sent, f.sid)[i])]

\* A receive pulled the message of a send that ran while a send of the other
\* thread was in progress and was accepted by the backend after that one.
C12_Witness ==
    \E t, u \in Thread :
        /\ t # u
        /\ stack[t] # <<>> /\ Top(stack[t]).op = "to"
        /\ Top(stack[t]).msg_channels # <<>>
        /\ ret[u].op = "send" /\ ret[u].res = "Ok"
        /\ ret[u].sid > Top(stack[t]).sid
        /\ sentLog[Top(stack[t]).c] = <<ret[u].sid, Top(stack[t]).sid>>

\* C13: every region the receiver decodes has the bytes of the region sent
\* in its place, and compares equal to it; the sender's region has the bytes it
\* was made with, before and after the send (the encoder pushes a clone, no
\* operation writes to a region).
C13_RegionBytesArrive ==
    \A t \in Thread :
        Received(t) =>
            /\ BuiltIn(ret[t].sent) =>
                   ret[t].res = "Ok" /\ Len(ret[t].value) = Len(ret[t].sent)
            /\ \A i \in 1..Len(ret[t].value) :
                   ret[t].sent[i].k = "Memory" =>
                       /\ ret[t].value[i].k = "Memory"
                       /\ ret[t].value[i].a \in Region
                       /\ deref(ret[t].value[i].a) = deref(ret[t].sent[i].a)

\* A value with two regions was received.
C13_Witness ==
    \E t \in Thread :
        /\ Received(t)
        /\ ret[t].res = "Ok"
        /\ ret[t].value = <<Memory(2), Byte(1), Memory(1)>>

\* The id add returned for the receiver of channel c.
AddedId(c) == (CHOOSE i \in 1..Len(addLog) : addLog[i].c = c)

ResultIds(rs) == [k \in 1..Len(rs) |-> rs[k].id]

\* A step in which select returns.
SelectReturns == results = <<>> /\ results' # <<>>

\* C14: select returns at least one result, at most one per registered
\* receiver and none for a receiver without activity. A MessageReceived
\* carries the id add returned for the receiver and that receiver's oldest
\* message, whole, which to() decodes to the value sent; a closed receiver
\* gives a ChannelClosed with its id among the results and leaves the set,
\* and select still returns Ok. The results are in the backend's order.
C14_SelectReportsEachEvent ==
    [][/\ SelectReturns =>
            /\ \A t \in Thread : ret'[t] # ret[t] =>
                   ret'[t].res = "Ok" /\ ret'[t].value = ResultIds(results')
            /\ \A i, j \in 1..Len(results') : i < j => U64_lt(results'[i].id, results'[j].id)
            /\ \A k \in 1..Len(results') :
                   LET r == results'[k]
                   IN /\ r.c \in SetChannels
                      /\ r.id = addLog[AddedId(r.c)].id
                      /\ IF r.kind = "MessageReceived"
                         THEN /\ queue[r.c] # <<>>
                              /\ r.sid = Head(queue[r.c]).sid
                              /\ r.message.data = Head(queue[r.c]).data
                              /\ r.message.os_ipc_channels = Head(queue[r.c]).channels
                              /\ Len(r.message.os_ipc_shared_memory_regions)
                                     = Len(Head(queue[r.c]).regions)
                              /\ \A i \in 1..Len(Head(queue[r.c]).regions) :
                                     r.message.os_ipc_shared_memory_regions[i]
                                         = Some(Head(queue[r.c]).regions[i])
                              /\ queue'[r.c] = Tail(queue[r.c])
                              /\ r.c \in SetChannels'
                         ELSE /\ r.kind = "ChannelClosed"
                              /\ OsIpcReceiver_closed(r.c)
                              /\ r.c \notin SetChannels'
            /\ \A c \in Chan :
                   (\A k \in 1..Len(results') : results'[k].c # c)
                       => /\ queue'[c] = queue[c]
                          /\ (c \in SetChannels <=> c \in SetChannels')
       /\ \A t \in Thread :
              (ToReturns(t) /\ Top(stack[t]).via = "to" /\ BuiltIn(Top(stack[t]).sent))
                  => ret'[t].res = "Ok" /\ ret'[t].value = Top(stack[t]).sent]_vars

\* One select reported a message of the second receiver added and the closure
\* of the first, and the message has been decoded.
C14_Witness ==
    \E t \in Thread :
        /\ ret[t].op = "to" /\ ret[t].res = "Ok"
        /\ ret[t].value = <<Sender(2), Memory(2)>>
        /\ Len(addLog) = 2
        /\ Len(os_receiver_set.receivers) = 1
        /\ os_receiver_set.receivers[1].id = addLog[2].id
        /\ results = <<>>

\* C15: the ids add and add_opaque returned on the set are pairwise different,
\* and a receiver added is the set's from then on: the program holds no
\* receiver of that channel, in hand or in a message.
C15_AddGivesFreshId ==
    /\ \A i, j \in 1..Len(addLog) : i # j => addLog[i].id # addLog[j].id
    /\ \A t \in Thread :
           ret[t].op \in {"add", "add_opaque"} =>
               /\ ret[t].res = "Ok"
               /\ ret[t].value = <<addLog[Len(addLog)].id>>
    /\ \A c \in SetChannels : c \notin rxLocal /\ RxHolders(c) = 1

C15_Witness ==
    /\ Len(addLog) = 2
    /\ \E t \in Thread : ret[t].op = "add_opaque"
    /\ Len(os_receiver_set.receivers) = 2

\* A step in which thread t returns from a call that decoded a message of
\* channel c, entered through via.
Delivers(t, c, via) ==
    /\ ToReturns(t)
    /\ Top(stack[t]).via \in via
    /\ Top(stack[t]).c = c
    /\ BuiltIn(Top(stack[t]).sent)

\* C16: accept returns the receiver of the connection together with the first
\* message the peer sent on it; nothing of the connection is received before
\* accept; each receive on the returned receiver gives the next message the
\* peer sent, in the order of the sends, and never the first one again.
C16_AcceptGivesFirstMessage ==
    [][/\ \A t \in Thread :
              Delivers(t, ServerName, {"accept"}) =>
                  /\ ret'[t].res = "Ok"
                  /\ ret'[t].value = Top(stack[t]).sent
                  /\ ret'[t].sid = sentLog[ServerName][1]
                  /\ ServerName \notin rxLocal
                  /\ ServerName \in rxLocal'
       /\ os_server' = "listening" =>
              recvLog'[ServerName] = <<>> /\ ServerName \notin rxLocal'
       /\ os_server' # "none" =>
              /\ Len(recvLog'[ServerName]) <= Len(sentLog'[ServerName])
              /\ \A i \in 1..Len(recvLog'[ServerName]) :
                     recvLog'[ServerName][i] = sentLog'[ServerName][i]
       /\ \A t \in Thread :
              (os_server = "accepted" /\ Delivers(t, ServerName, {"recv", "try_recv"})) =>
                  /\ ret'[t].res = "Ok"
                  /\ ret'[t].value = Top(stack[t]).sent
                  /\ Len(recvLog[ServerName]) > 1
                  /\ ret'[t].sid = sentLog[ServerName][Len(recvLog[ServerName])]
                  /\ ret'[t].sid # sentLog[ServerName][1]]_vars

\* accept has returned the first message and a recv on the receiver it
\* returned has given the second one.
C16_Witness ==
    \E t \in Thread :
        /\ os_server = "accepted"
        /\ ret[t].op = "recv" /\ ret[t].res = "Ok" /\ ret[t].c = ServerName
        /\ Len(sentLog[ServerName]) = 2
        /\ ret[t].sid = sentLog[ServerName][2]
        /\ ret[t].value = <<Byte(2), Sender(2)>>
        /\ recvLog[ServerName] = sentLog[ServerName]

\* A step in which IpcBytesSender::send or IpcBytesReceiver::recv returns.
BytesReturns(t, op) == ret'[t] # ret[t] /\ ret'[t].op = op /\ ret'[t].res = "Ok"

\* C17: IpcBytesSender::send queues, last on the channel, a message whose
\* payload is the slice and whose handle and memory vectors are empty;
\* IpcBytesReceiver::recv takes the oldest message of the channel and returns
\* its payload unchanged, and nothing the message carried beside it stays
\* with the program: its handles and regions are dropped.
C17_BytesChannelCarriesPayloadOnly ==
    [][\A t \in Thread :
          /\ BytesReturns(t, "bytes_send") =>
                 LET c == ret'[t].c
                 IN /\ Len(queue'[c]) = Len(queue[c]) + 1
                    /\ SubSeq(queue'[c], 1, Len(queue[c])) = queue[c]
                    /\ queue'[c][Len(queue'[c])].data = ret'[t].value
                    /\ queue'[c][Len(queue'[c])].channels = <<>>
                    /\ queue'[c][Len(queue'[c])].regions = <<>>
                    /\ UNCHANGED <<serBufs, deBufs, rxLocal, txLocal>>
          /\ BytesReturns(t, "bytes_recv") =>
                 LET c == ret'[t].c
                 IN /\ queue[c] # <<>>
                    /\ ret'[t].value = Head(queue[c]).data
                    /\ ret'[t].sid = Head(queue[c]).sid
                    /\ queue'[c] = Tail(queue[c])
                    /\ UNCHANGED <<serBufs, deBufs, rxLocal, txLocal>>
                    /\ \A d \in Chan :
                           /\ TxHolders(d)' = TxHolders(d) - CountTx(Head(queue[c]).channels, d)
                           /\ RxHolders(d)' = RxHolders(d) - CountRx(Head(queue[c]).channels, d)]_vars

\* A bytes receiver returned the payload of a message that carried a sender
\* and a region, which are gone; the slice a bytes sender sent after it is
\* queued with empty vectors.
C17_Witness ==
    \E t \in Thread, c \in Chan :
        /\ ret[t].op = "bytes_recv" /\ ret[t].res = "Ok" /\ ret[t].c = c
        /\ ret[t].sent = <<Sender(2), Memory(1)>>
        /\ ret[t].value = <<2, TagOf("Sender"), 0, TagOf("Memory"), 0>>
        /\ TxHolders(2) = txLocal[2]
        /\ Len(queue[c]) = 1
        /\ queue[c][1].data = <<2, 0, 84, 0, 105>>
        /\ queue[c][1].channels = <<>>

\* A step in which poll returns to the program on thread t.
PollReturns(t) == ret'[t] # ret[t] /\ ret'[t].op = "poll"

\* The call of to() that poll's try_recv entered returns in this step.
PollDecoded(t) == ToReturns(t) /\ Top(stack[t]).via = "poll" /\ Len(stack[t]) = 1

\* C18: poll on a receiver returns Ready(Some(message)) exactly when its
\* try_recv took the next message and decoded it; NotReady exactly when the
\* channel was empty and its sending end open, and then at once, with nothing
\* changed; Ready(None) exactly when the channel was empty and its sending end
\* closed; a message that does not decode gives the decoder's error, as an
\* error.
C18_PollMapsTryRecv ==
    [][\A t \in Thread :
          PollReturns(t) =>
              LET c == ret'[t].c
              IN /\ ret'[t].res \in {"ReadySome", "NotReady", "ReadyNone", "DeErr"}
                 /\ ret'[t].res = "ReadySome" <=>
                        (PollDecoded(t) /\ Top(stack[t]).pc = "deserialize")
                 /\ ret'[t].res = "ReadySome" =>
                        /\ ret'[t].value = Top(stack[t]).out
                        /\ ret'[t].sid = recvLog[c][Len(recvLog[c])]
                        /\ BuiltIn(Top(stack[t]).sent) =>
                               ret'[t].value = Top(stack[t]).sent
                 /\ ret'[t].res = "DeErr" <=>
                        (PollDecoded(t) /\ Top(stack[t]).pc = "failed")
                 /\ ret'[t].res = "NotReady" <=>
                        (stack[t] = <<>> /\ queue[c] = <<>> /\ ~OsIpcReceiver_closed(c))
                 /\ ret'[t].res = "ReadyNone" <=>
                        (stack[t] = <<>> /\ queue[c] = <<>> /\ OsIpcReceiver_closed(c))
                 /\ ret'[t].res \in {"NotReady", "ReadyNone"} =>
                        UNCHANGED <<queue, rxLocal, txLocal, serBufs, deBufs, stack,
                                    logs, nsend>>]_vars

\* A receiver polled after its messages were received and its senders dropped
\* gave the end of the sequence.
C18_Witness ==
    \E t \in Thread :
        /\ ret[t].op = "poll" /\ ret[t].res = "ReadyNone"
        /\ recvLog[ret[t].c] # <<>>
        /\ recvLog[ret[t].c] = sentLog[ret[t].c]

\* Thread t is in the deserializer of its innermost call of to().
InDecoder(t) ==
    /\ stack[t] # <<>>
    /\ Top(stack[t]).op = "to"
    /\ Top(stack[t]).pc = "deserialize"

\* While thread t decodes a message, its inbound buffers are that message's
\* vectors: the same handles and regions in the same positions, each intact
\* or taken by a decoder of this message.
OwnVectors(t) ==
    InDecoder(t) =>
        LET f == Top(stack[t])
            chans == OS_IPC_CHANNELS_FOR_DESERIALIZATION[t]
            regions == OS_IPC_SHARED_MEMORY_REGIONS_FOR_DESERIALIZATION[t]
        IN /\ Len(chans) = Len(f.msg_channels)
           /\ \A i \in 1..Len(chans) :
                  chans[i] \in {f.msg_channels[i], Taken(f.msg_channels[i])}
           /\ Len(regions) = Len(f.msg_regions)
           /\ \A i \in 1..Len(regions) :
                  regions[i] \in {f.msg_regions[i], None}

\* A step in which the deserializer of thread t builds an endpoint or a region.
Builds(t) ==
    /\ InDecoder(t)
    /\ Len(stack'[t]) = Len(stack[t])
    /\ Len(Top(stack'[t]).out) = Len(Top(stack[t]).out) + 1
    /\ Top(Top(stack'[t]).out).k \in {"Sender", "Receiver", "Memory"}

\* C19: a call of to() decodes with the vectors the backend delivered with
\* that message's payload, and they are the thread's inbound buffers whenever
\* its deserializer runs, also after a decode on the thread failed and after a
\* decode made from inside a decoder returned; the endpoint (region) built
\* for an index read from the payload is made from the handle (region) at
\* that position of the message's own vector.
C19_IndicesResolveInOwnMessage ==
    [][\A t \in Thread :
          /\ OwnVectors(t)'
          /\ (Len(stack'[t]) > Len(stack[t]) /\ Top(stack'[t]).op = "to"
                  /\ Top(stack'[t]).via # "to") =>
                 LET m == Head(queue[Top(stack'[t]).c])
                 IN /\ Top(stack'[t]).msg_channels = m.channels
                    /\ Top(stack'[t]).msg_regions
                           = [i \in 1..Len(m.regions) |-> Some(m.regions[i])]
          /\ Builds(t) =>
                 LET f == Top(stack[t])
                     x == Top(Top(stack'[t]).out)
                     index == f.data[f.rpos + 1]
                     taken(own) ==
                         IF OS_IPC_CHANNELS_FOR_DESERIALIZATION[t][index + 1] = own
                         THEN own ELSE Taken(own)
                 IN /\ x.k \in {"Sender", "Receiver"} =>
                        /\ index < Len(f.msg_channels)
                        /\ x.k = "Sender" =>
                               x.a = to_sender(taken(f.msg_channels[index + 1]))
                        /\ x.k = "Receiver" =>
                               x.a = to_receiver(taken(f.msg_channels[index + 1]))
                        /\ OS_IPC_CHANNELS_FOR_DESERIALIZATION'[t][index + 1]
                               = Taken(f.msg_channels[index + 1])
                    /\ x.k = "Memory" =>
                        /\ index < Len(f.msg_regions)
                        /\ f.msg_regions[index + 1] # None
                        /\ x.a = f.msg_regions[index + 1][1].m]_vars

\* After a decode on the thread failed, and after a decode made from inside
\* its first decoder returned, the decoder of a message built the sender its
\* payload names from the message's own handle.
C19_Witness ==
    \E t \in Thread :
        /\ InDecoder(t)
        /\ Len(stack[t]) = 1
        /\ Top(stack[t]).sent = <<Fetch(2), Sender(1)>>
        /\ Top(stack[t]).out = <<Fetch(2), Sender(1)>>
        /\ ret[t].res = "DeErr"
        /\ ret[t].c = 2

\* The thread's outbound buffers are what they were when the call f was
\* entered.
AsAtEntry(t, f) ==
    /\ OS_IPC_CHANNELS_FOR_SERIALIZATION[t] = f.entry_channels
    /\ OS_IPC_SHARED_MEMORY_REGIONS_FOR_SERIALIZATION[t] = f.entry_regions

\* The same of the buffers after the step.
AsAtEntryAfter(t, f) ==
    /\ OS_IPC_CHANNELS_FOR_SERIALIZATION'[t] = f.entry_channels
    /\ OS_IPC_SHARED_MEMORY_REGIONS_FOR_SERIALIZATION'[t] = f.entry_regions

\* The step in which a send whose serializer has finished swaps its buffers.
SwapsOut(t) ==
    /\ stack[t] # <<>> /\ Len(stack'[t]) = Len(stack[t])
    /\ Top(stack[t]).op = "send"
    /\ Top(stack[t]).pc = "serialize"
    /\ Top(stack'[t]).pc = "os_send"

\* C20: a send whose serializer succeeded takes what the buffers accumulated
\* as the message's vectors and puts back what the buffers held when it was
\* entered; the backend send is invoked only after that, with the buffers
\* already as at entry, and leaves them so. Hence when the backend send fails,
\* the buffers are as at the entry of the send and hold no entry of the
\* failed message's vectors and none its encoders pushed.
C20_BuffersRestoredBeforeBackendSend ==
    [][\A t \in Thread :
          /\ SwapsOut(t) =>
                 /\ Top(stack'[t]).os_ipc_channels = OS_IPC_CHANNELS_FOR_SERIALIZATION[t]
                 /\ Top(stack'[t]).os_ipc_shared_memory_regions
                        = OS_IPC_SHARED_MEMORY_REGIONS_FOR_SERIALIZATION[t]
                 /\ AsAtEntryAfter(t, Top(stack[t]))
                 /\ UNCHANGED <<queue, sentLog>>
          /\ (SendReturns(t) /\ ret'[t].res \in {"Ok", "OsErr"}) =>
                 LET f == Top(stack[t])
                 IN /\ f.pc = "os_send"
                    /\ AsAtEntry(t, f)
                    /\ AsAtEntryAfter(t, f)
                    /\ ret'[t].res = "OsErr" =>
                           LET held == SidsOf(OS_IPC_CHANNELS_FOR_SERIALIZATION'[t])
                                       \cup SidsOf(OS_IPC_SHARED_MEMORY_REGIONS_FOR_SERIALIZATION'[t])
                           IN /\ f.sid \notin held
                              /\ held \cap (SidsOf(f.os_ipc_channels)
                                            \cup SidsOf(f.os_ipc_shared_memory_regions)) = {}
                              /\ queue' = queue]_vars

\* The backend refused the message of a send that embedded a sender, made
\* when the thread's buffers were not empty: they are as they were.
C20_Witness ==
    \E t \in Thread :
        /\ ret[t].op = "send" /\ ret[t].res = "OsErr"
        /\ ret[t].sent = <<Sender(2)>>
        /\ OS_IPC_CHANNELS_FOR_SERIALIZATION[t] # <<>>
        /\ stack[t] = <<>>

\* The deserializer of thread t is about to read an index, of an endpoint or
\* of a region, that is not smaller than the length of the vector of that
\* kind of the message it decodes.
AtIndexOutOfRange(t) ==
    /\ InDecoder(t)
    /\ Top(stack[t]).left > 0
    /\ NextKind(Top(stack[t])) \in {"Sender", "Receiver", "Memory"}
    /\ LET f == Top(stack[t])
           index == f.data[f.rpos + 1]
       IN IF NextKind(f) = "Memory" THEN index >= Len(f.msg_regions)
          ELSE index >= Len(f.msg_channels)

\* C21: when the deserializer reads from a message's payload an endpoint or
\* memory index that is not smaller than the length of the message's vector
\* of that kind, the thread panics and unwinds: no call in progress on it (to,
\* recv, try_recv, accept) returns, neither a value nor a deserialization
\* error. A deserializer that gives up with an error has met no such index.
C21_IndexOutOfRangePanics ==
    [][\A t \in Thread :
          /\ (AtIndexOutOfRange(t) /\ (stack'[t] # stack[t] \/ ret'[t] # ret[t])) =>
                 /\ ret'[t].res = "Panic"
                 /\ ret'[t].sid = Top(stack[t]).sid
                 /\ stack'[t] = <<>>
                 /\ ~Running(t)'
          /\ (InDecoder(t) /\ stack'[t] # <<>> /\ Len(stack'[t]) = Len(stack[t])
                  /\ Top(stack'[t]).pc = "failed") =>
                 NextKind(Top(stack[t])) \in {"BadDe", "BadSer", "Invalid", "Eof"}
          /\ (stack[t] # <<>> /\ Top(stack[t]).op = "to"
                  /\ Len(stack'[t]) < Len(stack[t]) /\ ret'[t].res # "Panic") =>
                 ~AtIndexOutOfRange(t)]_vars

\* A recv panicked on a message whose payload names the sender at index 0
\* and whose handle vector is empty.
C21_Witness ==
    \E t \in Thread :
        /\ ret[t].op = "recv" /\ ret[t].res = "Panic"
        /\ ret[t].sent = <<Sender(1), Relay(2, <<Memory(1), BadSer>>)>>
        /\ stack[t] = <<>>

\* The regions the deserializer has handed out so far in the call f, and the
\* slots of the thread's inbound memory buffer that are empty.
HandedOut(f) == {k \in 1..Len(f.out) : f.out[k].k = "Memory"}
EmptySlots(t) ==
    {i \in 1..Len(OS_IPC_SHARED_MEMORY_REGIONS_FOR_DESERIALIZATION[t]) :
         OS_IPC_SHARED_MEMORY_REGIONS_FOR_DESERIALIZATION[t][i] = None}

\* The deserializer of thread t is about to read a memory index whose slot was
\* emptied earlier in this decode.
AtEmptySlot(t) ==
    /\ InDecoder(t)
    /\ Top(stack[t]).left > 0
    /\ NextKind(Top(stack[t])) = "Memory"
    /\ Top(stack[t]).data[Top(stack[t]).rpos + 1] + 1 \in EmptySlots(t)

\* C22: OpaqueIpcMessage::new wraps every region received in a full slot;
\* the decoder of a region takes it out of the slot its index names, which is
\* full before and empty after, no other slot changing; so in a decode there
\* are as many empty slots as regions handed out, and a second reference to an
\* index finds the slot empty and hands out nothing: the thread panics.
C22_RegionTakenOnce ==
    [][\A t \in Thread :
          /\ (Len(stack'[t]) > Len(stack[t]) /\ Top(stack'[t]).op = "to") =>
                 \A i \in 1..Len(Top(stack'[t]).msg_regions) :
                     Top(stack'[t]).msg_regions[i] # None
          /\ (Builds(t) /\ Top(Top(stack'[t]).out).k = "Memory") =>
                 LET slot == Top(stack[t]).data[Top(stack[t]).rpos + 1] + 1
                     before == OS_IPC_SHARED_MEMORY_REGIONS_FOR_DESERIALIZATION[t]
                     after == OS_IPC_SHARED_MEMORY_REGIONS_FOR_DESERIALIZATION'[t]
                 IN /\ slot \in 1..Len(before)
                    /\ before[slot] # None
                    /\ Top(Top(stack'[t]).out).a = before[slot][1].m
                    /\ after = [before EXCEPT ![slot] = None]
          /\ InDecoder(t)' =>
                 Cardinality(EmptySlots(t)') = Cardinality(HandedOut(Top(stack'[t])))
          /\ (AtEmptySlot(t) /\ (stack'[t] # stack[t] \/ ret'[t] # ret[t])) =>
                 ret'[t].res = "Panic" /\ stack'[t] = <<>>]_vars

\* A decode has taken the region at index 0 and its payload names index 0
\* once more.
C22_Witness ==
    \E t \in Thread :
        /\ AtEmptySlot(t)
        /\ Top(stack[t]).data[Top(stack[t]).rpos + 1] = 0
        /\ HandedOut(Top(stack[t])) = {1}

\* The four thread-local buffers of thread t.
BuffersOf(t) ==
    <<OS_IPC_CHANNELS_FOR_SERIALIZATION[t],
      OS_IPC_SHARED_MEMORY_REGIONS_FOR_SERIALIZATION[t],
      OS_IPC_CHANNELS_FOR_DESERIALIZATION[t],
      OS_IPC_SHARED_MEMORY_REGIONS_FOR_DESERIALIZATION[t]>>

\* The message m carries nothing but what the encoder of its own send pushed.
CarriesOwnOnly(m) == SidsOf(m.channels) \cup SidsOf(m.regions) \subseteq {m.sid}

\* C23: with sends and receives running on several threads, every message a
\* send produced carries only handles and regions that send's own encoder
\* pushed, a decode resolves against its own message's vectors only, and a
\* step changes the buffers of no thread but the one that takes it.
C23_BuffersArePerThread ==
    [][Cardinality(active) > 1 =>
          /\ \A c \in Chan : \A i \in 1..Len(queue'[c]) : CarriesOwnOnly(queue'[c][i])
          /\ \A t \in Thread :
                 /\ OwnVectors(t)'
                 /\ BuffersOf(t)' # BuffersOf(t) =>
                        /\ stack'[t] # stack[t]
                        /\ \A u \in Thread \ {t} :
                               stack'[u] = stack[u] /\ BuffersOf(u)' = BuffersOf(u)]_vars

\* Only the isolation of the threads' buffers, which the code has.
StepsTouchOwnBuffers ==
    [][\A t \in Thread :
          BuffersOf(t)' # BuffersOf(t) =>
              /\ stack'[t] # stack[t]
              /\ \A u \in Thread \ {t} :
                     stack'[u] = stack[u] /\ BuffersOf(u)' = BuffersOf(u)]_vars

\* A step in which a recv or try_recv of thread t that had pulled a message
\* returns the deserializer's error.
DecodeFails(t) ==
    /\ ToReturns(t)
    /\ Top(stack[t]).via \in {"recv", "try_recv"}
    /\ ret'[t].res = "DeErr"

QueuedSids == UNION {{queue[c][i].sid : i \in 1..Len(queue[c])} : c \in Chan}

\* C24: when recv or try_recv returns the deserializer's error, the message
\* it pulled is gone from the channel and is the last one pulled from it; the
\* program got no endpoint of it, every handle the message carried has one
\* owner less, and the thread's inbound buffers hold what they held before the
\* call, so nothing of the message is kept. The next message pulled from
\* the channel is the one sent after it.
C24_FailedDecodeConsumesMessage ==
    [][\A t \in Thread :
          /\ DecodeFails(t) =>
                 LET f == Top(stack[t])
                 IN /\ f.sid \notin QueuedSids'
                    /\ recvLog'[f.c] = recvLog[f.c]
                    /\ \E i \in 1..Len(recvLog[f.c]) :
                           /\ recvLog[f.c][i] = f.sid
                           /\ sentLog[f.c][i] = f.sid
                           /\ \A j \in 1..Len(recvLog[f.c]) :
                                  recvLog[f.c][j] = f.sid => j = i
                    /\ ret'[t].value = <<>>
                    /\ rxLocal' = rxLocal /\ txLocal' = txLocal
                    /\ OS_IPC_CHANNELS_FOR_DESERIALIZATION'[t] = f.entry_channels
                    /\ OS_IPC_SHARED_MEMORY_REGIONS_FOR_DESERIALIZATION'[t] = f.entry_regions
                    /\ \A d \in Chan :
                           /\ TxHolders(d)' = TxHolders(d) - CountTx(f.msg_channels, d)
                           /\ RxHolders(d)' = RxHolders(d) - CountRx(f.msg_channels, d)
          /\ (Len(stack'[t]) > Len(stack[t]) /\ Top(stack'[t]).op = "to"
                  /\ Top(stack'[t]).via \in {"recv", "try_recv"}) =>
                 LET c == Top(stack'[t]).c
                 IN /\ Len(sentLog[c]) > Len(recvLog[c])
                    /\ Top(stack'[t]).sid = sentLog[c][Len(recvLog[c]) + 1]]_vars

\* A recv failed to decode a message that carried a receiver, which is
\* closed now; the next recv has pulled the message sent after it.
C24_Witness ==
    \E t \in Thread :
        /\ ret[t].op = "recv" /\ ret[t].res = "DeErr"
        /\ ret[t].sent = <<Receiver(2), BadDe>>
        /\ RxHolders(2) = 0
        /\ Len(stack[t]) = 1
        /\ Top(stack[t]).op = "to" /\ Top(stack[t]).via = "recv"
        /\ Top(stack[t]).c = ret[t].c
        /\ sentLog[ret[t].c] = <<ret[t].sid, Top(stack[t]).sid>>

\* The one-shot server has accepted and the receiver of its connection is
\* closed: accept dropped it.
ConnectionClosed == os_server = "accepted" /\ RxHolders(ServerName) = 0

\* C25: when the first message of the connection does not decode, accept
\* returns the deserializer's error and nothing else; the server is used up
\* and the receiver of the connection is closed, the program holding none.
\* From then on nothing is received from the peer: what it had sent stays
\* unread, what it sends is refused.
C25_FailedAcceptClosesConnection ==
    [][/\ \A t \in Thread :
              (ToReturns(t) /\ Top(stack[t]).via = "accept" /\ ret'[t].res = "DeErr") =>
                  /\ ret'[t].value = <<>>
                  /\ os_server' = "accepted"
                  /\ ServerName \notin rxLocal'
                  /\ rxLocal' = rxLocal
                  /\ ConnectionClosed'
       /\ ConnectionClosed =>
              /\ ConnectionClosed'
              /\ recvLog'[ServerName] = recvLog[ServerName]
              /\ queue'[ServerName] = queue[ServerName]
              /\ sentLog'[ServerName] = sentLog[ServerName]
              /\ \A t \in Thread :
                     (ret'[t] # ret[t] /\ ret'[t].c = ServerName) =>
                         ret'[t].op = "send" /\ ret'[t].res \in {"OsErr", "SerErr"}]_vars

\* accept failed on the first message; the peer's next send was refused.
C25_Witness ==
    \E t \in Thread :
        /\ ConnectionClosed
        /\ ret[t].op = "send" /\ ret[t].res = "OsErr" /\ ret[t].c = ServerName
        /\ Len(recvLog[ServerName]) = 1
        /\ sentLog[ServerName] = recvLog[ServerName]
        /\ ret[t].sid > recvLog[ServerName][1]

====
